---- MODULE Spec2Model ----
(***************************************************************************)
(* Issue context aggregation of jira-testplan-bot (src/src/app).           *)
(*                                                                         *)
(* JSON values received from Jira, GitHub and Figma are modelled as tagged *)
(* records: None, Str(<<chars>>), Obj(record) and List(<<...>>).  A key    *)
(* that is absent from a JSON object is absent from the record's DOMAIN,   *)
(* so that dict.get(key, default) distinguishes an absent key (default)    *)
(* from a key whose value is null (None).                                  *)
(* An operation that can raise returns either Ok(value) or Raise(type).    *)
(***************************************************************************)
EXTENDS Integers, Sequences, FiniteSets, TLC

VARIABLES
    github_token,       \* settings.github_token is set
    figma_token,        \* settings.figma_token is set
    pc,                 \* position of the running call
    issue_key,          \* get_issue: its argument
    primary,            \* get_issue: outcome and body of the primary issue read
    data,               \* get_issue: the payload of the primary issue read
    description_str,    \* get_issue: text extracted from the description
    application_types,  \* _get_development_info: types found in the summary
    pending,            \* _get_development_info: types the loop has still to visit
    commits,            \* _get_development_info: local list
    pull_requests,      \* _get_development_info: local list
    branches,           \* _get_development_info: local list
    dev_result,         \* _get_development_info: the value returned
    development_info,   \* get_issue: local
    attachments,        \* get_issue: local
    filtered_comments,  \* get_issue: local
    parent_issue,       \* get_issue: local
    issue_links_data,   \* _get_linked_issues: the raw issuelinks list
    link_lists,         \* _get_linked_issues: the four lists before truncation
    linked_issues,      \* _get_linked_issues: the value returned (or raised)
    returned,           \* get_issue: the JiraIssue returned
    exc,                \* get_issue: the exception raised
    calls,              \* requests sent to Jira, GitHub and Figma, in order
    http_status,        \* GET /issue/{key}: status of the answer
    comments_arg,       \* _filter_testing_comments: its argument
    filter_result,      \* _filter_testing_comments: the value returned (or raised)
    node_arg,           \* _extract_frames: the document node it is called on
    frames_result,      \* _extract_frames: the value returned
    adf_arg,            \* extract_text_from_adf: its argument
    adf_result,         \* extract_text_from_adf: the value returned (or raised)
    description_arg,    \* analyze_description: its argument
    analysis_result,    \* analyze_description: the DescriptionAnalysis returned
    jira_comments,      \* the comments Jira holds for the issue, oldest first
    comment_text,       \* post_comment: its argument
    post_result,        \* post_comment: the value returned (or raised), the requests sent
    written,            \* ids of the comments post_comment created or updated so far
    images_arg,         \* get_all_images: its arguments
    images_result,      \* get_all_images: the value returned
    procs,              \* post_comment calls that run concurrently: position and locals
    context_attempts    \* _get_development_info: the URLs fetch_repository_context was called on

settings_vars == <<github_token, figma_token>>
dev_vars == <<application_types, pending, commits, pull_requests, branches, dev_result>>
issue_vars == <<issue_key, primary, data, description_str, development_info, attachments,
                filtered_comments, parent_issue, returned, exc, calls, http_status>>
link_vars == <<issue_links_data, link_lists, linked_issues>>
unit_vars == <<comments_arg, filter_result, node_arg, frames_result, adf_arg, adf_result,
               description_arg, analysis_result>>
post_vars == <<jira_comments, comment_text, post_result, written>>
util_vars == <<images_arg, images_result, procs, context_attempts>>
vars == <<settings_vars, pc, dev_vars, issue_vars, link_vars, unit_vars, post_vars, util_vars>>

(***************************************************************************)
(* Python values                                                           *)
(***************************************************************************)
None == [t |-> "None"]
Str(s) == [t |-> "str", v |-> s]
Obj(o) == [t |-> "dict", v |-> o]
List(l) == [t |-> "list", v |-> l]
Num(n) == [t |-> "int", v |-> n]
EmptyDict == Obj(<<>>)

\* bool(x) of a JSON value
\* a truthiness test that never passes
NeverTruthy(j) == FALSE

Truthy(j) ==
    CASE j.t = "None" -> FALSE
      [] j.t = "str"  -> j.v # <<>>
      [] j.t = "dict" -> DOMAIN j.v # {}
      [] j.t = "list" -> j.v # <<>>
      [] j.t = "int"  -> j.v # 0

\* only a dict has .get; None.get(...) is an AttributeError
HasGet(j) == j.t = "dict"

\* d.get(k, default), for a dict d
Get(d, k, default) == IF k \in DOMAIN d.v THEN d.v[k] ELSE default

Ok(v) == [raised |-> FALSE, value |-> v]
Raise(e) == [raised |-> TRUE, exc |-> e]

(***************************************************************************)
(* Strings are sequences of characters; str.lower() and the `in` operator  *)
(***************************************************************************)
LowerChar(c) ==
    CASE c = "B" -> "b" [] c = "C" -> "c" [] c = "L" -> "l" [] c = "O" -> "o"
      [] c = "K" -> "k" [] c = "S" -> "s" [] c = "R" -> "r" [] c = "E" -> "e"
      [] c = "X" -> "x" [] c = "P" -> "p" [] c = "I" -> "i" [] c = "D" -> "d"
      [] c = "T" -> "t" [] c = "A" -> "a" [] c = "U" -> "u"
      [] c = "F" -> "f" [] c = "G" -> "g" [] c = "H" -> "h" [] c = "J" -> "j"
      [] c = "M" -> "m" [] c = "N" -> "n" [] c = "Q" -> "q" [] c = "V" -> "v"
      [] c = "W" -> "w" [] c = "Y" -> "y" [] c = "Z" -> "z"
      [] c = "Test" -> "test" [] c = "Verify" -> "verify" [] c = "IMAGE/PNG" -> "image/png"
      [] OTHER -> c

Lower(s) == [i \in 1..Len(s) |-> LowerChar(s[i])]

\* sub in s
Contains(s, sub) ==
    \E i \in 1..(Len(s) - Len(sub) + 1) : SubSeq(s, i, i + Len(sub) - 1) = sub

\* s[:n]
Prefix(s, n) == SubSeq(s, 1, IF Len(s) < n THEN Len(s) ELSE n)

(***************************************************************************)
(* adf_parser.py: extract_text_from_adf                                    *)
(***************************************************************************)
Whitespace == {" ", "\n", "\t"}

RECURSIVE LStrip(_)
LStrip(s) == IF s # <<>> /\ Head(s) \in Whitespace THEN LStrip(Tail(s)) ELSE s

RECURSIVE RStrip(_)
RStrip(s) ==
    IF s # <<>> /\ s[Len(s)] \in Whitespace THEN RStrip(SubSeq(s, 1, Len(s) - 1)) ELSE s

\* str.strip()
Strip(s) == RStrip(LStrip(s))

\* str(n) for a small non-negative integer
Digit(n) == CASE n = 0 -> "0" [] n = 1 -> "1" [] n = 2 -> "2" [] n = 3 -> "3" [] n = 4 -> "4"
              [] n = 5 -> "5" [] n = 6 -> "6" [] n = 7 -> "7" [] n = 8 -> "8" [] n = 9 -> "9"

RECURSIVE IntToStr(_)
IntToStr(n) == IF n < 10 THEN <<Digit(n)>> ELSE IntToStr(n \div 10) \o <<Digit(n % 10)>>

\* "\n".join(text_parts): a TypeError unless every part is a str
RECURSIVE JoinLines(_)
JoinLines(parts) ==
    IF parts = <<>> THEN Ok(<<>>)
    ELSE IF Head(parts).t # "str" THEN Raise("TypeError")
    ELSE IF Len(parts) = 1 THEN Ok(Head(parts).v)
    ELSE LET rest == JoinLines(Tail(parts))
         IN  IF rest.raised THEN rest ELSE Ok(Head(parts).v \o <<"\n">> \o rest.value)

\* line 61 looking at the first mark only
FirstMarkStrike(marks) ==
    IF marks = <<>> THEN Ok(FALSE)
    ELSE IF ~HasGet(Head(marks)) THEN Raise("AttributeError")
    ELSE Ok(Get(Head(marks), "type", None) = Str(<<"s","t","r","i","k","e">>))

\* any(mark.get("type") == "strike" for mark in marks), left to right, lazily
RECURSIVE AnyStrike(_)
AnyStrike(marks) ==
    IF marks = <<>> THEN Ok(FALSE)
    ELSE IF ~HasGet(Head(marks)) THEN Raise("AttributeError")
    ELSE IF Get(Head(marks), "type", None) = Str(<<"s","t","r","i","k","e">>) THEN Ok(TRUE)
    ELSE AnyStrike(Tail(marks))

has_strikethrough(marks) ==
    CASE marks.t = "list" -> AnyStrike(marks.v)
      [] marks.t = "None" -> Raise("TypeError")
      [] marks.t = "int"  -> Raise("TypeError")
      [] marks.t = "str"  -> IF marks.v = <<>> THEN Ok(FALSE) ELSE Raise("AttributeError")
      [] marks.t = "dict" -> IF DOMAIN marks.v = {} THEN Ok(FALSE) ELSE Raise("AttributeError")

Bullet == <<"*", " ">>

RECURSIVE _extract_text_recursive(_, _)
RECURSIVE ExtractItems(_, _)

\* for item in node: _extract_text_recursive(item, text_parts)
ExtractItems(items, text_parts) ==
    IF items = <<>> THEN Ok(text_parts)
    ELSE LET Rest(r) == IF r.raised THEN r ELSE ExtractItems(Tail(items), r.value)
         IN  Rest(_extract_text_recursive(Head(items), text_parts))

\* text_parts is returned instead of being mutated in place
_extract_text_recursive(node, text_parts) ==
    CASE node.t = "str"  -> Ok(Append(text_parts, node))
      [] node.t = "list" -> ExtractItems(node.v, text_parts)
      [] node.t = "dict" ->
            LET \* lines 69-103: the node types, once the "text" field is handled
                Typed(node_type, attrs, parts1) ==
                    LET Children(parts) ==
                            IF "content" \in DOMAIN node.v
                            THEN _extract_text_recursive(node.v["content"], parts)
                            ELSE Ok(parts)
                        LineBreak(content) ==
                            IF content.raised THEN content
                            ELSE Ok(Append(content.value, Str(<<>>)))
                        Card(url) == IF Truthy(url) THEN Ok(Append(parts1, url)) ELSE Ok(parts1)
                    IN  IF node_type \in {Str(<<"inlineCard">>), Str(<<"blockCard">>)}
                        THEN IF ~HasGet(attrs) THEN Raise("AttributeError")
                             ELSE Card(Get(attrs, "url", None))
                        ELSE IF node_type \in {Str(<<"paragraph">>), Str(<<"heading">>),
                                               Str(<<"codeBlock">>), Str(<<"bulletList">>),
                                               Str(<<"orderedList">>)}
                        THEN LineBreak(Children(parts1))
                        ELSE IF node_type = Str(<<"listItem">>)
                        THEN Children(Append(parts1, Str(Bullet)))
                        ELSE Children(parts1)
                \* lines 58-67: the "text" field, skipped when struck through
                Text(strike) ==
                    IF strike.raised THEN strike
                    ELSE Typed(Get(node, "type", None), Get(node, "attrs", EmptyDict),
                               IF "text" \in DOMAIN node.v /\ ~strike.value
                               THEN Append(text_parts, node.v["text"])
                               ELSE text_parts)
            IN  Text(IF "text" \in DOMAIN node.v
                     THEN has_strikethrough(Get(node, "marks", List(<<>>)))
                     ELSE Ok(TRUE))
      [] OTHER -> Ok(text_parts)

\* str(x) of a None, an int, a str inside a list, or a list of these
RECURSIVE PyStr(_)
PyStr(j) ==
    CASE j.t = "None" -> <<"None">>
      [] j.t = "int"  -> IntToStr(j.v)
      [] j.t = "str"  -> <<"'">> \o j.v \o <<"'">>
      [] j.t = "list" ->
            LET Items[i \in 0..Len(j.v)] ==
                    IF i = 0 THEN <<>>
                    ELSE Items[i - 1] \o (IF i = 1 THEN <<>> ELSE <<",", " ">>) \o PyStr(j.v[i])
            IN  <<"[">> \o Items[Len(j.v)] \o <<"]">>

\* returns Ok(<<chars>>) or Raise(type)
extract_text_from_adf(adf_content) ==
    CASE adf_content.t = "None" -> Ok(<<>>)
      [] adf_content.t = "str"  -> Ok(Strip(adf_content.v))
      [] adf_content.t = "int"  -> Ok(Strip(IntToStr(adf_content.v)))
      [] adf_content.t = "list" -> Ok(Strip(PyStr(adf_content)))
      [] adf_content.t = "dict" ->
            LET Joined(joined) == IF joined.raised THEN joined ELSE Ok(Strip(joined.value))
                Parts(r) == IF r.raised THEN r ELSE Joined(JoinLines(r.value))
            IN  Parts(_extract_text_recursive(adf_content, <<>>))

(***************************************************************************)
(* description_analyzer.py: analyze_description                            *)
(***************************************************************************)
MIN_CHARS == 50
MIN_WORDS == 10

DescriptionAnalysis(has_description, is_weak, warnings, char_count, word_count) ==
    [has_description |-> has_description, is_weak |-> is_weak, warnings |-> warnings,
     char_count |-> char_count, word_count |-> word_count]

\* the warnings; a count is part of the text of two of them
Warning(text, count) == [text |-> text, count |-> count]
W_NoDescription == Warning("No description provided in Jira ticket", 0)
W_VeryShort(char_count) == Warning("Description is very short", char_count)
W_FewWords(word_count) == Warning("Description contains only a few words", word_count)
W_NoAcceptanceCriteria == Warning("No explicit acceptance criteria (AC) detected", 0)
W_NoTestKeywords == Warning("No testing or validation keywords found", 0)

\* lines 67-80 without "given"
AC_KEYWORDS_WITHOUT_GIVEN ==
    { <<"a", "c", "c", "e", "p", "t", "a", "n", "c", "e", " ", "c", "r", "i", "t", "e", "r", "i", "a">>,
      <<"a", "c", ":">>,
      <<"a", "c", "c", "e", "p", "t", "a", "n", "c", "e", ":">>,
      <<"s", "h", "o", "u", "l", "d", ":">>,
      <<"m", "u", "s", "t", ":">>,
      <<"w", "h", "e", "n">>,
      <<"t", "h", "e", "n">> }

\* lines 67-80
AC_KEYWORDS ==
    { <<"a", "c", "c", "e", "p", "t", "a", "n", "c", "e", " ", "c", "r", "i", "t", "e", "r", "i", "a">>,
      <<"a", "c", ":">>,
      <<"a", "c", "c", "e", "p", "t", "a", "n", "c", "e", ":">>,
      <<"s", "h", "o", "u", "l", "d", ":">>,
      <<"m", "u", "s", "t", ":">>,
      <<"g", "i", "v", "e", "n">>,
      <<"w", "h", "e", "n">>,
      <<"t", "h", "e", "n">> }

\* lines 88-100
TEST_INFO_KEYWORDS ==
    { <<"t", "e", "s", "t">>,
      <<"v", "e", "r", "i", "f", "y">>,
      <<"v", "a", "l", "i", "d", "a", "t", "e">>,
      <<"e", "n", "s", "u", "r", "e">>,
      <<"c", "h", "e", "c", "k">>,
      <<"e", "x", "p", "e", "c", "t", "e", "d">>,
      <<"b", "e", "h", "a", "v", "i", "o", "r">> }

\* line 46 without the split: the characters are counted
CharCount(s) == Len(s)

\* len(s.split()): the number of runs of characters that are not whitespace
WordCount(s) ==
    Cardinality({ i \in 1..Len(s) :
                     s[i] \notin Whitespace /\ (i = 1 \/ s[i - 1] \in Whitespace) })

analyze_description(description) ==
    LET \* lines 65-112, on the lower-cased text
        Keywords(lower_text, char_count, word_count, is_weak, warnings) ==
            LET WithTestInfo(warnings2) ==
                    DescriptionAnalysis(TRUE, is_weak \/ warnings2 # <<>>, warnings2,
                                        char_count, word_count)
                WithAc(warnings1) ==
                    WithTestInfo(
                        IF (~\E keyword \in TEST_INFO_KEYWORDS : Contains(lower_text, keyword))
                               /\ char_count > MIN_CHARS
                        THEN Append(warnings1, W_NoTestKeywords)
                        ELSE warnings1)
            IN  WithAc(IF (~\E keyword \in AC_KEYWORDS : Contains(lower_text, keyword))
                              /\ char_count > MIN_CHARS
                       THEN Append(warnings, W_NoAcceptanceCriteria)
                       ELSE warnings)
        \* lines 44-63
        Counted(clean_text, char_count, word_count) ==
            IF char_count < MIN_CHARS
            THEN Keywords(Lower(clean_text), char_count, word_count, TRUE,
                          << W_VeryShort(char_count) >>)
            ELSE IF word_count < MIN_WORDS
            THEN Keywords(Lower(clean_text), char_count, word_count, TRUE,
                          << W_FewWords(word_count) >>)
            ELSE Keywords(Lower(clean_text), char_count, word_count, FALSE, <<>>)
        Cleaned(clean_text) == Counted(clean_text, Len(clean_text), WordCount(clean_text))
    IN  IF ~Truthy(description) \/ Strip(description.v) = <<>>
        THEN DescriptionAnalysis(FALSE, TRUE, << W_NoDescription >>, 0, 0)
        ELSE Cleaned(Strip(description.v))

(***************************************************************************)
(* jira_client.py: _parse_linked_issue, _get_linked_issues                 *)
(***************************************************************************)
MAX_LINKS_PER_TYPE == 5
MAX_LINK_DESCRIPTION == 500

S_UNKNOWN == <<"U","N","K","N","O","W","N">>
S_block == <<"b","l","o","c","k">>
S_cause == <<"c","a","u","s","e">>
S_ellipsis == <<".", ".", ".">>

LinkedIssue(key, summary, description, issue_type, link_type, status) ==
    [key |-> key, summary |-> summary, description |-> description,
     issue_type |-> issue_type, link_type |-> link_type, status |-> status]

\* the description of a linked issue: extraction errors are swallowed
LinkedDescription(description_adf) ==
    IF ~Truthy(description_adf) THEN None
    ELSE LET Limited(r) ==
                 IF r.raised THEN None
                 ELSE IF r.value # <<>> /\ Len(r.value) > MAX_LINK_DESCRIPTION
                      THEN Str(Prefix(r.value, MAX_LINK_DESCRIPTION) \o S_ellipsis)
                      ELSE Str(r.value)
         IN  Limited(extract_text_from_adf(description_adf))

_parse_linked_issue(issue_data, link_type) ==
    IF ~Truthy(issue_data)
    THEN Ok(LinkedIssue(Str(S_UNKNOWN), Str(<<"Unknown Issue (malformed link data)">>),
                        None, Str(<<"Unknown">>), link_type, None))
    ELSE IF ~HasGet(issue_data) THEN Raise("AttributeError")
    ELSE LET issue_fields == Get(issue_data, "fields", EmptyDict)
         IN  IF ~HasGet(issue_fields) THEN Raise("AttributeError")
             ELSE LET issuetype == Get(issue_fields, "issuetype", EmptyDict)
                      status == Get(issue_fields, "status", EmptyDict)
                  IN  IF ~HasGet(issuetype) \/ ~HasGet(status) THEN Raise("AttributeError")
                      ELSE Ok(LinkedIssue(Get(issue_data, "key", Str(S_UNKNOWN)),
                                          Get(issue_fields, "summary", Str(<<"Unknown">>)),
                                          LinkedDescription(Get(issue_fields, "description", None)),
                                          Get(issuetype, "name", Str(<<"Unknown">>)),
                                          link_type,
                                          Get(status, "name", None)))

NoLinkLists == [blocks |-> <<>>, blocked_by |-> <<>>, causes |-> <<>>, caused_by |-> <<>>]

\* `if issue: xs.append(self._parse_linked_issue(issue, link_type))`
\* returns Ok(xs') or the exception of _parse_linked_issue
AppendParsed(xs, issue, link_type) ==
    IF ~Truthy(issue) THEN Ok(xs)
    ELSE LET Appended(r) == IF r.raised THEN r ELSE Ok(Append(xs, r.value))
         IN  Appended(_parse_linked_issue(issue, link_type))

\* link_name of one raw link: Ok(<<chars>>) or Raise
LinkName(link) ==
    IF ~HasGet(link) THEN Raise("AttributeError")
    ELSE LET link_type_data == Get(link, "type", EmptyDict)
         IN  IF ~HasGet(link_type_data) THEN Raise("AttributeError")
             ELSE LET name == Get(link_type_data, "name", Str(<<>>))
                  IN  IF name.t # "str" THEN Raise("AttributeError")
                      ELSE Ok(Lower(name.v))

\* one iteration of the loop over issue_links_data (lines 576-601)
ClassifyLink(link, acc) ==
    LET inward_issue == Get(link, "inwardIssue", None)
        outward_issue == Get(link, "outwardIssue", None)
        Blocks(o, i) ==
            IF o.raised THEN o ELSE IF i.raised THEN i
            ELSE Ok([acc EXCEPT !.blocks = o.value, !.blocked_by = i.value])
        Causes(o, i) ==
            IF o.raised THEN o ELSE IF i.raised THEN i
            ELSE Ok([acc EXCEPT !.causes = o.value, !.caused_by = i.value])
        Named(link_name) ==
            IF link_name.raised THEN link_name
            ELSE IF Contains(link_name.value, S_block)
            THEN Blocks(AppendParsed(acc.blocks, outward_issue, "blocks"),
                        AppendParsed(acc.blocked_by, inward_issue, "is_blocked_by"))
            ELSE IF Contains(link_name.value, S_cause)
            THEN Causes(AppendParsed(acc.causes, outward_issue, "causes"),
                        AppendParsed(acc.caused_by, inward_issue, "is_caused_by"))
            ELSE Ok(acc)
    IN  Named(LinkName(link))

RECURSIVE ClassifyLinks(_, _)
ClassifyLinks(links, acc) ==
    IF links = <<>> THEN Ok(acc)
    ELSE LET Rest(r) == IF r.raised THEN r ELSE ClassifyLinks(Tail(links), r.value)
         IN  Rest(ClassifyLink(Head(links), acc))

\* lines 603-620: truncation, None when all four lists are empty
LinkedIssues(lists) ==
    LET blocks_list == Prefix(lists.blocks, MAX_LINKS_PER_TYPE)
        blocked_by_list == Prefix(lists.blocked_by, MAX_LINKS_PER_TYPE)
        causes_list == Prefix(lists.causes, MAX_LINKS_PER_TYPE)
        caused_by_list == Prefix(lists.caused_by, MAX_LINKS_PER_TYPE)
    IN  IF blocks_list = <<>> /\ blocked_by_list = <<>>
           /\ causes_list = <<>> /\ caused_by_list = <<>>
        THEN None
        ELSE [t |-> "LinkedIssues", blocks |-> blocks_list, blocked_by |-> blocked_by_list,
              causes |-> causes_list, caused_by |-> caused_by_list]

\* Ok(None), Ok(LinkedIssues) or Raise
_get_linked_issues(links) ==
    IF links = <<>> THEN Ok(None)
    ELSE LET Truncated(lists) == IF lists.raised THEN lists ELSE Ok(LinkedIssues(lists.value))
         IN  Truncated(ClassifyLinks(links, NoLinkLists))

(***************************************************************************)
(* Raw link lists handed to _get_linked_issues                             *)
(***************************************************************************)
MaxShortLinks == 3     \* longest list over the full link universe
MaxLongLinks == 7      \* longest list over the well-formed links (truncation)

Name_Blocks == <<"B","l","o","c","k","s">>
Name_BLOCKS == <<"B","L","O","C","K","S">>
Name_Causes == <<"C","a","u","s","e","s">>
Name_Relates == <<"R","e","l","a","t","e","s">>
Name_Both == <<"B","l","o","c","k","s","/","C","a","u","s","e","s">>

LinkType(name) == Obj([name |-> Str(name)])

IssueData(key) ==
    Obj([key |-> Str(<<key>>),
         fields |-> Obj([summary |-> Str(<<"summary of", key>>),
                         issuetype |-> Obj([name |-> Str(<<"Bug">>)]),
                         status |-> Obj([name |-> Str(<<"Open">>)])])])
Issue_A == IssueData("A")
Issue_B == IssueData("B")
Issue_NoKey == Obj([fields |-> EmptyDict])
Issue_NullFields == Obj([key |-> Str(<<"C">>), fields |-> None])
Issue_NullStatus == Obj([key |-> Str(<<"D">>), fields |-> Obj([status |-> None])])
Issue_NullIssuetype == Obj([key |-> Str(<<"E">>), fields |-> Obj([issuetype |-> None])])

Outward(type, issue) == Obj([type |-> type, outwardIssue |-> issue])
Inward(type, issue) == Obj([type |-> type, inwardIssue |-> issue])

\* links as the Jira API documents them
WellFormedLinks ==
    { Outward(LinkType(Name_Blocks), Issue_A),
      Inward(LinkType(Name_Blocks), Issue_B),
      Outward(LinkType(Name_Causes), Issue_A),
      Inward(LinkType(Name_Causes), Issue_B),
      Outward(LinkType(Name_Relates), Issue_A),
      Inward(LinkType(Name_BLOCKS), Issue_A),
      Outward(LinkType(Name_Both), Issue_B) }

\* links with a missing or null nested field
MalformedLinks ==
    { Obj([type |-> LinkType(Name_Blocks)]),
      Obj([type |-> LinkType(Name_Causes), inwardIssue |-> None, outwardIssue |-> None]),
      Outward(LinkType(Name_Blocks), EmptyDict),
      Outward(None, Issue_A),
      Obj([outwardIssue |-> Issue_A]),
      Outward(Obj([name |-> None]), Issue_A),
      Outward(LinkType(Name_Blocks), Issue_NoKey),
      Inward(LinkType(Name_Blocks), Issue_NullFields),
      Outward(LinkType(Name_Causes), Issue_NullStatus),
      Inward(LinkType(Name_Causes), Issue_NullIssuetype) }

TruncationLinks ==
    { Outward(LinkType(Name_Blocks), Issue_A),
      Outward(LinkType(Name_Blocks), Issue_B),
      Inward(LinkType(Name_Causes), Issue_B) }

SeqsUpTo(S, n) == UNION { [1..k -> S] : k \in 0..n }

LinkInputs ==
    SeqsUpTo(WellFormedLinks \cup MalformedLinks, MaxShortLinks)
        \cup SeqsUpTo(TruncationLinks, MaxLongLinks)

NotCalled == [t |-> "not called"]


(***************************************************************************)
(* github_client.py: _parse_github_url, _fetch_pr_comments,                *)
(* fetch_pr_details, fetch_repository_context                              *)
(*                                                                         *)
(* A URL is a string whose symbols are its scheme, host, "/" separators    *)
(* and path segments.  An HTTP exchange is summarised by its outcome: a    *)
(* status code, or the name of the transport exception httpx raised.       *)
(***************************************************************************)
S_github_com == <<"github.com">>
Digits == {"7", "8"}

Url_GitHubPR7 == <<"https://", "github.com", "/", "acme", "/", "shop", "/", "pull", "/", "7">>
Url_GitHubPR8 == <<"https://", "github.com", "/", "acme", "/", "shop", "/", "pull", "/", "8">>
Url_GitHubTree == <<"https://", "github.com", "/", "acme", "/", "shop", "/", "tree", "/", "main">>
Url_Bitbucket == <<"https://", "bitbucket.org", "/", "acme", "/", "shop", "/", "pull-requests", "/", "7">>

\* only a refused connection counts as an exception
IsConnectError(outcome) == outcome = "ConnectError"

IsException(outcome) == outcome \in {"ConnectError", "TimeoutException", "ReadError"}

\* a request sent to an external service: the endpoint, what it was about
\* (an issue key, a URL, a file path) whether it was answered with 200 and whether it raised in transport
Call(api, arg, outcome) ==
    [api |-> api, arg |-> arg, ok |-> outcome = "200",
     raised |-> outcome \in {"ConnectError", "TimeoutException", "ReadError"}]
\* the request raises in transport, or response.raise_for_status() raises
Fails(outcome) == outcome # "200"

\* re.search(r"github\.com/([^/]+)/([^/]+)/pull/(\d+)", pr_url): None or owner/repo/number
_parse_github_url(pr_url) ==
    LET starts == { i \in 1..(Len(pr_url) - 8) :
                        /\ pr_url[i] = "github.com"
                        /\ pr_url[i + 1] = "/" /\ pr_url[i + 2] # "/"
                        /\ pr_url[i + 3] = "/" /\ pr_url[i + 4] # "/"
                        /\ pr_url[i + 5] = "/" /\ pr_url[i + 6] = "pull"
                        /\ pr_url[i + 7] = "/" /\ pr_url[i + 8] \in Digits }
    IN  IF starts = {} THEN None
        ELSE LET i == CHOOSE k \in starts : \A m \in starts : k <= m
             IN  [t |-> "parsed", owner |-> pr_url[i + 2], repo |-> pr_url[i + 4],
                  pr_number |-> pr_url[i + 8]]

\* the outcomes of the calls one fetch_pr_details may issue
GhExchange(pr, files, conversation, review) ==
    [pr |-> pr, files |-> files, conversation |-> conversation, review |-> review]

PRComment(author, body, comment_type) ==
    [author |-> author, body |-> body, comment_type |-> comment_type]

\* what GitHub holds for a pull request
ConversationComments(pr_number) == << PRComment("alice", <<"please test", pr_number>>, "conversation") >>
ReviewComments(pr_number) == << PRComment("bob", <<"[", "cart.py", "] ", "nit">>, "review_comment") >>
FilesChanged(pr_number) == << [filename |-> "cart.py", status |-> "modified",
                               additions |-> 3, deletions |-> 1, changes |-> 4] >>

RECURSIVE SumField(_, _)
SumField(xs, f) == IF xs = <<>> THEN 0 ELSE Head(xs)[f] + SumField(Tail(xs), f)

\* _fetch_pr_comments reading the conversation endpoint a second time
_fetch_pr_comments_twice(pr_url, pr_number, x) ==
    LET conversation == Call("github:issue-comments", pr_url, x.conversation)
        review == Call("github:review-comments", pr_url, x.review)
    IN  [value |-> IF IsException(x.conversation) \/ IsException(x.review) THEN <<>>
                   ELSE (IF x.conversation = "200" THEN ConversationComments(pr_number) ELSE <<>>)
                        \o (IF x.review = "200" THEN ReviewComments(pr_number) ELSE <<>>),
         calls |-> <<conversation, conversation, review>>]

\* returns [value |-> comments, calls |-> the requests sent]
_fetch_pr_comments(pr_url, pr_number, x) ==
    LET conversation == Call("github:issue-comments", pr_url, x.conversation)
        review == Call("github:review-comments", pr_url, x.review)
    IN  IF IsException(x.conversation)
        THEN [value |-> <<>>, calls |-> <<conversation>>]
        ELSE LET conv == IF x.conversation = "200" THEN ConversationComments(pr_number) ELSE <<>>
             IN  IF IsException(x.review)
                 THEN [value |-> <<>>, calls |-> <<conversation, review>>]
                 ELSE [value |-> conv \o (IF x.review = "200" THEN ReviewComments(pr_number)
                                                              ELSE <<>>),
                       calls |-> <<conversation, review>>]

\* returns [value |-> PRDetails or None, calls |-> the requests sent]
fetch_pr_details(pr_url, include_comments, x) ==
    LET pull == Call("github:pull", pr_url, x.pr)
        files == Call("github:files", pr_url, x.files)
        Details(parsed) ==
            LET WithComments(files_changed, comments) ==
                    [value |-> [t |-> "PRDetails",
                                description |-> Str(<<"body of PR", parsed.pr_number>>),
                                files_changed |-> files_changed,
                                total_additions |-> SumField(files_changed, "additions"),
                                total_deletions |-> SumField(files_changed, "deletions"),
                                comments |-> comments.value],
                     calls |-> <<pull, files>> \o comments.calls]
            IN  IF ~github_token THEN [value |-> None, calls |-> <<>>]
                ELSE IF parsed = None THEN [value |-> None, calls |-> <<>>]
                ELSE IF Fails(x.pr) THEN [value |-> None, calls |-> <<pull>>]
                ELSE IF Fails(x.files) THEN [value |-> None, calls |-> <<pull, files>>]
                ELSE WithComments(FilesChanged(parsed.pr_number),
                                  IF include_comments
                                  THEN _fetch_pr_comments(pr_url, parsed.pr_number, x)
                                  ELSE [value |-> <<>>, calls |-> <<>>])
    IN  Details(_parse_github_url(pr_url))

\* _fetch_file_content: tries the branches main and master in turn;
\* x is the pair of outcomes.  Returns [value, calls].
_fetch_file_content(file_path, x) ==
    LET main == Call("github:contents", <<file_path, "main">>, x[1])
        master == Call("github:contents", <<file_path, "master">>, x[2])
    IN  IF IsException(x[1]) THEN [value |-> None, calls |-> <<main>>]
        ELSE IF x[1] = "200"
        THEN [value |-> Str(<<"content of", file_path>>), calls |-> <<main>>]
        ELSE IF IsException(x[2]) THEN [value |-> None, calls |-> <<main, master>>]
        ELSE IF x[2] = "200"
        THEN [value |-> Str(<<"content of", file_path>>), calls |-> <<main, master>>]
        ELSE [value |-> None, calls |-> <<main, master>>]

_find_test_files(x) ==
    [value |-> IF x = "200" THEN <<"tests/test_cart.py">> ELSE <<>>,
     calls |-> <<Call("github:search", <<>>, x)>>]

\* the outcomes of the calls one fetch_repository_context may issue
RepoExchange(readme, search, testid, screen) ==
    [readme |-> readme, search |-> search, testid |-> testid, screen |-> screen]

\* returns [value |-> RepositoryContext or None, calls]
fetch_repository_context(pr_url, x) ==
    LET Context(parsed, readme_content, test_examples, testid_reference, screen_guide) ==
            IF ~github_token THEN [value |-> None, calls |-> <<>>]
            ELSE IF parsed = None THEN [value |-> None, calls |-> <<>>]
            ELSE [value |-> [t |-> "RepositoryContext",
                             readme_content |-> readme_content.value,
                             test_examples |-> test_examples.value,
                             testid_reference |-> testid_reference.value,
                             screen_guide |-> screen_guide.value],
                  calls |-> readme_content.calls \o test_examples.calls
                                \o testid_reference.calls \o screen_guide.calls]
    IN  Context(_parse_github_url(pr_url),
                _fetch_file_content("README.md", x.readme),
                _find_test_files(x.search),
                _fetch_file_content("testid-reference.md", x.testid),
                _fetch_file_content("screen-guide.md", x.screen))

(***************************************************************************)
(* jira_client.py: development information                                 *)
(***************************************************************************)
DataTypes == <<"repository", "pullrequest", "branch">>

\* lines 119-128: the application types of the summary, in discovered order.
\* summary_info maps a data type to the keys of its byInstanceType object,
\* in the order of the response.
RECURSIVE AddNew(_, _)
AddNew(types, keys) ==
    IF keys = <<>> THEN types
    ELSE AddNew(IF \E i \in 1..Len(types) : types[i] = Head(keys)
                THEN types
                ELSE Append(types, Head(keys)),
                Tail(keys))

RECURSIVE ApplicationTypesFrom(_, _, _)
ApplicationTypesFrom(summary_info, i, types) ==
    IF i > Len(DataTypes) THEN types
    ELSE ApplicationTypesFrom(summary_info, i + 1,
             IF DataTypes[i] \in DOMAIN summary_info
             THEN AddNew(types, summary_info[DataTypes[i]])
             ELSE types)

ApplicationTypes(summary_info) == ApplicationTypesFrom(summary_info, 1, <<>>)

\* the orders in which `for app_type in set(types)` may visit
\* the types: the iteration order of a set of str depends on the hash seed
\* of the process
SetIterationOrders(types) ==
    LET n == Len(types)
    IN  { [i \in 1..n |-> types[p[i]]] :
              p \in { q \in [1..n -> 1..n] : \A a, b \in 1..n : a # b => q[a] # q[b] } }

Commit(message, author, date, url) ==
    [message |-> message, author |-> author, date |-> date, url |-> url]

RECURSIVE Flatten(_)
Flatten(xss) == IF xss = <<>> THEN <<>> ELSE Head(xss) \o Flatten(Tail(xss))

Map(f(_), xs) == [i \in 1..Len(xs) |-> f(xs[i])]

RECURSIVE Filter(_, _)
Filter(xs, keep) ==
    IF xs = <<>> THEN <<>>
    ELSE IF Head(xs) \in keep THEN <<Head(xs)>> \o Filter(Tail(xs), keep)
    ELSE Filter(Tail(xs), keep)

\* the repositories of all details, in order
Repositories(repo_data) ==
    LET reposOf(detail) == Get(detail, "repositories", List(<<>>)).v
    IN  Flatten(Map(reposOf, Get(repo_data, "detail", List(<<>>)).v))

_extract_commits(repo_data) ==
    LET commitOf(commit) == Commit(Get(commit, "message", Str(<<>>)),
                                   Get(Get(commit, "author", EmptyDict), "name", None),
                                   Get(commit, "authorTimestamp", None),
                                   Get(commit, "url", None))
        commitsOf(repo) == Map(commitOf, Get(repo, "commits", List(<<>>)).v)
    IN  Flatten(Map(commitsOf, Repositories(repo_data)))

_extract_branches(repo_data) ==
    LET nameOf(branch) == Get(branch, "name", None)
        namesOf(repo) == Map(nameOf, Get(repo, "branches", List(<<>>)).v)
        all == Flatten(Map(namesOf, Repositories(repo_data)))
    IN  Filter(all, { all[i] : i \in { k \in 1..Len(all) : Truthy(all[k]) } })

\* lines 254-260 with the file list defaulting to [] instead of None
BasicPullRequestEmptyFiles(pr) ==
    [title |-> Get(pr, "name", Str(<<>>)),
     status |-> Get(pr, "status", Str(<<"UNKNOWN">>)),
     url |-> Get(pr, "url", None),
     source_branch |-> Get(Get(pr, "source", EmptyDict), "branch", None),
     destination_branch |-> Get(Get(pr, "destination", EmptyDict), "branch", None),
     repository |-> None,
     github_description |-> None,
     files_changed |-> List(<<>>),
     total_additions |-> None,
     total_deletions |-> None,
     comments |-> None]

\* lines 254-260: the pull request as Jira reports it
BasicPullRequest(pr) ==
    [title |-> Get(pr, "name", Str(<<>>)),
     status |-> Get(pr, "status", Str(<<"UNKNOWN">>)),
     url |-> Get(pr, "url", None),
     source_branch |-> Get(Get(pr, "source", EmptyDict), "branch", None),
     destination_branch |-> Get(Get(pr, "destination", EmptyDict), "branch", None),
     repository |-> None,
     github_description |-> None,
     files_changed |-> None,
     total_additions |-> None,
     total_deletions |-> None,
     comments |-> None]

\* lines 262-294: `github_client and pr_url and "github.com" in pr_url`
WantsEnrichment(pr_url) ==
    github_token /\ Truthy(pr_url) /\ Contains(pr_url.v, S_github_com)

\* lines 250-296 for one pull request; x is the GitHub exchange.
\* Returns [value |-> PullRequest, calls].
ExtractPullRequest(pr, x) ==
    LET Enrich(pr_obj) ==
            LET With(gh) ==
                    IF gh.value = None THEN [value |-> pr_obj, calls |-> gh.calls]
                    ELSE [value |-> [pr_obj EXCEPT
                                        !.github_description = gh.value.description,
                                        !.files_changed = List(gh.value.files_changed),
                                        !.total_additions = Num(gh.value.total_additions),
                                        !.total_deletions = Num(gh.value.total_deletions),
                                        !.comments = List(gh.value.comments)],
                          calls |-> gh.calls]
            IN  IF ~WantsEnrichment(pr_obj.url)
                THEN [value |-> pr_obj, calls |-> <<>>]
                ELSE With(fetch_pr_details(pr_obj.url.v, TRUE, x))
    IN  Enrich(BasicPullRequest(pr))

\* the pull requests of all details, in order
PullRequestsOf(pr_data) ==
    LET prsOf(detail) == Get(detail, "pullRequests", List(<<>>)).v
    IN  Flatten(Map(prsOf, Get(pr_data, "detail", List(<<>>)).v))

\* _extract_pull_requests that keeps a pull request only if it needs no enrichment or
\* its enrichment gave something
_extract_pull_requests_enriched_only(pr_data, xs) ==
    LET prs == PullRequestsOf(pr_data)
        extracted == [i \in 1..Len(prs) |-> ExtractPullRequest(prs[i], xs[i])]
        values == [i \in DOMAIN extracted |-> extracted[i].value]
    IN  [value |-> Filter(values, { v \in { values[i] : i \in DOMAIN values } :
                                       ~WantsEnrichment(v.url) \/ v.github_description # None }),
         calls |-> Flatten([i \in DOMAIN extracted |-> extracted[i].calls])]

\* _extract_pull_requests; xs[i] is the GitHub exchange of the i-th pull request
_extract_pull_requests(pr_data, xs) ==
    LET Collected(extracted) ==
            [value |-> [i \in DOMAIN extracted |-> extracted[i].value],
             calls |-> Flatten([i \in DOMAIN extracted |-> extracted[i].calls])]
        Each(prs) == Collected([i \in 1..Len(prs) |-> ExtractPullRequest(prs[i], xs[i])])
    IN  Each(PullRequestsOf(pr_data))

\* lines 178-190: the repository context of the first pull request whose
\* fetch yields one; x is the GitHub exchange of a fetch.
\* Returns [value |-> RepositoryContext or None, calls].
RECURSIVE RepositoryContextOf(_, _)
RepositoryContextOf(prs, x) ==
    IF ~github_token \/ prs = <<>>
    THEN [value |-> None, calls |-> <<>>, attempts |-> <<>>]
    ELSE IF Truthy(Head(prs).url) /\ Contains(Head(prs).url.v, S_github_com)
    THEN LET Later(r, rest) == [value |-> rest.value, calls |-> r.calls \o rest.calls,
                                attempts |-> <<Head(prs).url.v>> \o rest.attempts]
             First(r) == IF r.value # None
                         THEN [value |-> r.value, calls |-> r.calls,
                               attempts |-> <<Head(prs).url.v>>]
                         ELSE Later(r, RepositoryContextOf(Tail(prs), x))
         IN  First(fetch_repository_context(Head(prs).url.v, x))
    ELSE RepositoryContextOf(Tail(prs), x)

\* line 175 without its test: an empty result is returned as an object
NothingFoundIgnored(cs, prs, bs) == FALSE

\* line 175: `not commits and not pull_requests and not branches`
NothingFound(cs, prs, bs) == cs = <<>> /\ prs = <<>> /\ bs = <<>>

DevelopmentInfo(cs, prs, bs, repository_context, figma_context) ==
    [t |-> "DevelopmentInfo", commits |-> cs, pull_requests |-> prs,
     branches |-> bs, repository_context |-> repository_context,
     figma_context |-> figma_context]

(***************************************************************************)
(* figma_client.py                                                         *)
(***************************************************************************)
FIGMA_MAX_DEPTH == 3
FIGMA_MAX_CHILDREN == 50
FIGMA_MAX_FRAMES == 50
FIGMA_MAX_COMPONENTS == 30

Url_FigmaFile == <<"https://www.figma.com/file/abc123/Login">>
Url_FigmaCommunity == <<"https://www.figma.com/community/plugin/1">>

\* re.search(r"https?://(?:www\.)?figma\.com/(file|design|proto)/[A-Za-z0-9]+[^\s]*", s):
\* the first URL symbol of the description with that shape, or None
FigmaUrlSymbols == { Url_FigmaFile[1] }

_extract_figma_url(description) ==
    LET hits == { i \in 1..Len(description) : description[i] \in FigmaUrlSymbols }
    IN  IF hits = {} THEN None
        ELSE Str(<<description[CHOOSE i \in hits : \A j \in hits : i <= j]>>)

\* re.search(r"figma\.com/(file|design|proto)/([A-Za-z0-9]+)", figma_url).group(2)
_parse_figma_url(figma_url) ==
    IF figma_url = Url_FigmaFile THEN Str(<<"abc123">>) ELSE None

FigmaFrame(name, type, node_id) == [name |-> name, type |-> type, node_id |-> node_id]

\* line 184 with GROUP collected as well
FrameTypesWithGroup ==
    { Str(<<"FRAME">>), Str(<<"COMPONENT">>), Str(<<"PAGE">>), Str(<<"CANVAS">>),
      Str(<<"GROUP">>) }

FrameTypes == { Str(<<"FRAME">>), Str(<<"COMPONENT">>), Str(<<"PAGE">>), Str(<<"CANVAS">>) }

RECURSIVE _extract_frames(_, _, _)
RECURSIVE ExtractChildFrames(_, _, _)

ExtractChildFrames(children, depth, max_depth) ==
    IF children = <<>> THEN <<>>
    ELSE _extract_frames(Head(children), depth, max_depth)
             \o ExtractChildFrames(Tail(children), depth, max_depth)

_extract_frames(node, depth, max_depth) ==
    IF depth > max_depth THEN <<>>
    ELSE LET node_type == Get(node, "type", None)
             own == IF node_type \in FrameTypes
                    THEN << FigmaFrame(Get(node, "name", Str(<<"Unnamed">>)), node_type,
                                       Get(node, "id", None)) >>
                    ELSE <<>>
             children == Get(node, "children", List(<<>>)).v
         IN  Prefix(own \o ExtractChildFrames(Prefix(children, FIGMA_MAX_CHILDREN),
                                              depth + 1, max_depth),
                    FIGMA_MAX_FRAMES)

FigmaNode(type, name, children) ==
    Obj([type |-> Str(<<type>>), name |-> Str(<<name>>), id |-> Str(<<"id of", name>>),
         children |-> List(children)])

\* what Figma holds for file abc123
FigmaFile ==
    Obj([name |-> Str(<<"Login flow">>),
         lastModified |-> Str(<<"2025-01-01">>),
         document |-> FigmaNode("DOCUMENT", "Document",
                          << FigmaNode("CANVAS", "Page 1",
                                 << FigmaNode("FRAME", "Login", <<>>),
                                    FigmaNode("TEXT", "Title", <<>>) >>) >>)])

FigmaComponents ==
    Obj([meta |-> Obj([components |->
            List(<< Obj([name |-> Str(<<"Button">>), description |-> Str(<<"primary">>),
                         containing_frame |-> Obj([name |-> Str(<<"Buttons">>)])]) >>)])])

\* _fetch_components: [] unless the components call answers 200
_fetch_components(outcome) ==
    LET component(c) == [name |-> Get(c, "name", Str(<<"Unnamed Component">>)),
                         description |-> Get(c, "description", None),
                         component_set_name |->
                             Get(Get(c, "containing_frame", EmptyDict), "name", None)]
        meta == Get(Get(FigmaComponents, "meta", EmptyDict), "components", List(<<>>)).v
    IN  IF outcome = "200" THEN Map(component, Prefix(meta, FIGMA_MAX_COMPONENTS)) ELSE <<>>

\* the outcomes of the two calls of fetch_file_context
FigmaExchange(file, components) == [file |-> file, components |-> components]

\* returns [value |-> FigmaContext or None, calls]
fetch_file_context(figma_url, x) ==
    LET file_key == _parse_figma_url(figma_url)
    IN  IF ~figma_token THEN [value |-> None, calls |-> <<>>]
        ELSE IF ~Truthy(file_key) THEN [value |-> None, calls |-> <<>>]
        ELSE IF x.file # "200"
        THEN [value |-> None, calls |-> <<Call("figma:file", figma_url, x.file)>>]
        ELSE [value |-> [t |-> "FigmaContext",
                         file_name |-> Get(FigmaFile, "name", Str(<<"Unknown">>)),
                         file_key |-> file_key,
                         last_modified |-> Get(FigmaFile, "lastModified", None),
                         frames |-> _extract_frames(Get(FigmaFile, "document", EmptyDict),
                                                    0, FIGMA_MAX_DEPTH),
                         components |-> _fetch_components(x.components),
                         version |-> Get(FigmaFile, "version", None)],
              calls |-> <<Call("figma:file", figma_url, x.file),
                          Call("figma:components", figma_url, x.components)>>]

\* lines 711-713 and 508-510: the design context of a description.
\* Returns [value |-> FigmaContext or None, calls].
FigmaContextOf(description, x) ==
    LET figma_url == _extract_figma_url(description)
    IN  IF description # <<>> /\ figma_token /\ Truthy(figma_url)
        THEN fetch_file_context(figma_url.v, x)
        ELSE [value |-> None, calls |-> <<>>]

(***************************************************************************)
(* jira_client.py: attachments, comments, parent issue                     *)
(***************************************************************************)
MAX_IMAGE_SIZE == 20 * 1024 * 1024
MAX_IMAGES == 3
\* line 383 with a window that is one comment too wide
COMMENT_WINDOW_TOO_WIDE == 10 + 1
COMMENT_WINDOW == 10
MAX_COMMENTS == 3
PARENT_FALLBACK_CHARS == 500

IMAGE_MIME_TYPES == { <<"image/png">>, <<"image/jpeg">>, <<"image/jpg">>, <<"image/gif">> }

Attachment(filename, mime_type, size, url, thumbnail_url) ==
    [filename |-> filename, mime_type |-> mime_type, size |-> size, url |-> url,
     thumbnail_url |-> thumbnail_url]

\* the loop of _extract_image_attachments: Ok(list) or Raise
RECURSIVE ImageAttachments(_, _)
ImageAttachments(attachments_data, image_attachments) ==
    IF attachments_data = <<>> THEN Ok(image_attachments)
    ELSE LET attachment == Head(attachments_data)
             mime == Get(attachment, "mimeType", Str(<<>>))
             size == Get(attachment, "size", Num(0))
         IN  IF ~HasGet(attachment) \/ mime.t # "str" THEN Raise("AttributeError")
             ELSE IF Lower(mime.v) \notin IMAGE_MIME_TYPES
             THEN ImageAttachments(Tail(attachments_data), image_attachments)
             ELSE IF size.t # "int" THEN Raise("TypeError")
             ELSE IF size.v > MAX_IMAGE_SIZE
             THEN ImageAttachments(Tail(attachments_data), image_attachments)
             ELSE ImageAttachments(Tail(attachments_data),
                      Append(image_attachments,
                             Attachment(Get(attachment, "filename", Str(<<>>)), Lower(mime.v),
                                        size.v, Get(attachment, "content", Str(<<>>)),
                                        Get(attachment, "thumbnail", None))))

_extract_image_attachments(attachments_data) ==
    LET Limited(r) == IF r.raised THEN r ELSE Ok(Prefix(r.value, MAX_IMAGES))
    IN  Limited(ImageAttachments(attachments_data, <<>>))

BOT_MARKER == <<"[robot]", " ", "Generated", " ", "Test", " ", "Plan">>

TESTING_KEYWORDS ==
    { <<"test">>, <<"testing">>, <<"qa">>, <<"quality">>, <<"verify">>, <<"validation">>,
      <<"validate">>, <<"scenario">>, <<"edge", " ", "case">>, <<"check">>, <<"reproduce">>,
      <<"steps", " ", "to">>, <<"regression">>, <<"acceptance", " ", "criteria">>,
      <<"expected", " ", "behavior">>, <<"actual", " ", "behavior">>, <<"bug">>, <<"defect">>,
      <<"issue">>, <<"problem">>, <<"fails">>, <<"passes">>, <<"coverage">> }

JiraComment(author, body, created, updated) ==
    [author |-> author, body |-> body, created |-> created, updated |-> updated]

IsTestingRelated(body_text) == \E keyword \in TESTING_KEYWORDS : Contains(Lower(body_text), keyword)

\* the loop of _filter_testing_comments (lines 388-421): Ok(parsed_comments) or Raise
RECURSIVE ParsedComments(_, _)
ParsedComments(recent_comments, parsed_comments) ==
    IF recent_comments = <<>> THEN Ok(parsed_comments)
    ELSE LET comment_data == Head(recent_comments)
             author_info == Get(comment_data, "author", EmptyDict)
             author == Get(author_info, "displayName",
                           Get(author_info, "emailAddress", Str(<<"Unknown">>)))
             Parsed(body_text) ==
                 IF body_text.raised THEN body_text
                 ELSE IF body_text.value = <<>> \/ Contains(body_text.value, BOT_MARKER)
                 THEN ParsedComments(Tail(recent_comments), parsed_comments)
                 ELSE ParsedComments(Tail(recent_comments),
                          Append(parsed_comments,
                                 JiraComment(author, body_text.value,
                                             Get(comment_data, "created", Str(<<>>)),
                                             Get(comment_data, "updated", None))))
         IN  IF ~HasGet(comment_data) \/ ~HasGet(author_info) THEN Raise("AttributeError")
             ELSE Parsed(extract_text_from_adf(Get(comment_data, "body", EmptyDict)))

\* Ok(list of at most 3 JiraComment) or Raise
_filter_testing_comments(comments_data) ==
    LET n == Len(comments_data)
        recent_comments == IF n > COMMENT_WINDOW
                           THEN SubSeq(comments_data, n - COMMENT_WINDOW + 1, n)
                           ELSE comments_data
        \* lines 423-434
        Top(parsed_comments, testing_related, other_comments) ==
            IF Len(testing_related) >= MAX_COMMENTS
            THEN Ok(Prefix(testing_related, MAX_COMMENTS))
            ELSE IF testing_related # <<>>
            THEN Ok(testing_related
                        \o Prefix(other_comments, MAX_COMMENTS - Len(testing_related)))
            ELSE Ok(Prefix(parsed_comments, MAX_COMMENTS))
        Split(parsed_comments, related) ==
            Top(parsed_comments,
                Filter(parsed_comments, related),
                Filter(parsed_comments,
                       { parsed_comments[i] : i \in 1..Len(parsed_comments) } \ related))
        Related(parsed_comments) ==
            Split(parsed_comments,
                  { parsed_comments[i] :
                      i \in { k \in 1..Len(parsed_comments) :
                                  IsTestingRelated(parsed_comments[k].body) } })
        Filtered(parsed) == IF parsed.raised THEN parsed ELSE Related(parsed.value)
    IN  Filtered(ParsedComments(recent_comments, <<>>))

ParentIssue(key, summary, description, issue_type, labels, images, figma_context) ==
    [t |-> "ParentIssue", key |-> key, summary |-> summary, description |-> description,
     issue_type |-> issue_type, labels |-> labels, attachments |-> images,
     figma_context |-> figma_context]

\* lines 491-499: the parent's description text, None or a str
ParentDescription(description) ==
    LET Fallback(text) == IF text.t = "str" THEN Str(Prefix(text.v, PARENT_FALLBACK_CHARS))
                          ELSE Str(<<"None">>)
        Extracted(r) ==
            IF ~r.raised THEN Str(r.value)
            ELSE IF Truthy(description) /\ description.t = "dict"
            THEN Fallback(Get(description, "text", Str(<<>>)))
            ELSE None
    IN  Extracted(extract_text_from_adf(description))

\* lines 476-485: a parent that is read twice (a retry of the request)
ParentReadRetried(parent_key, outcome) ==
    << Call("jira:issue", parent_key, outcome), Call("jira:issue", parent_key, outcome) >>

\* lines 476-485: the one request _get_parent_issue sends to Jira
ParentRead(parent_key, outcome) == << Call("jira:issue", parent_key, outcome) >>

\* _get_parent_issue: outcome is that of the parent read, parent_data its
\* payload, x the Figma exchange.  Every exception ends in `return None`.
\* Returns [value |-> ParentIssue or None, calls].
_get_parent_issue(parent_key, outcome, parent_data, x) ==
    LET read == ParentRead(parent_key, outcome)
        parent_fields == Get(parent_data, "fields", EmptyDict)
        issuetype == Get(parent_fields, "issuetype", EmptyDict)
        Built(parent_description, parent_attachments, figma) ==
            IF ~HasGet(parent_fields) \/ parent_attachments.raised
            THEN [value |-> None, calls |-> read]
            ELSE IF "key" \notin DOMAIN parent_data.v \/ ~HasGet(issuetype)
            THEN [value |-> None, calls |-> read \o figma.calls]
            ELSE [value |-> ParentIssue(parent_data.v["key"],
                                        Get(parent_fields, "summary", Str(<<>>)),
                                        IF Truthy(parent_description)
                                        THEN parent_description ELSE None,
                                        Get(issuetype, "name", Str(<<>>)),
                                        Get(parent_fields, "labels", List(<<>>)),
                                        IF parent_attachments.value # <<>>
                                        THEN List(parent_attachments.value) ELSE None,
                                        figma.value),
                  calls |-> read \o figma.calls]
        Described(parent_description, parent_attachments) ==
            Built(parent_description, parent_attachments,
                  IF Truthy(parent_description)
                  THEN FigmaContextOf(parent_description.v, x)
                  ELSE [value |-> None, calls |-> <<>>])
    IN  IF Fails(outcome) THEN [value |-> None, calls |-> read]
        ELSE Described(ParentDescription(Get(parent_fields, "description", None)),
                       _extract_image_attachments(
                           Get(parent_fields, "attachment", List(<<>>)).v))

\* _parse_auth_error: the error type of a 401 body
NotJson == [t |-> "not json"]
S_expired == <<"e","x","p","i","r","e","d">>

\* _parse_auth_error without .lower(): the test is case-sensitive
_parse_auth_error_case_sensitive(body) ==
    LET messages == Get(body, "errorMessages", None)
        error_msg == IF HasGet(body) /\ Truthy(messages) /\ messages.t = "list"
                     THEN messages.v[1].v
                     ELSE <<>>
    IN  IF Contains(error_msg, S_expired) THEN "expired" ELSE "invalid"

_parse_auth_error(body) ==
    LET messages == Get(body, "errorMessages", None)
        error_msg == IF HasGet(body) /\ Truthy(messages) /\ messages.t = "list"
                     THEN messages.v[1].v
                     ELSE <<>>
    IN  IF Contains(Lower(error_msg), S_expired) THEN "expired" ELSE "invalid"

(***************************************************************************)
(* The Jira site the client talks to: a handful of issues, their comments, *)
(* parents and development data.  Which calls fail, and how, is chosen     *)
(* freely by the actions below.                                            *)
(***************************************************************************)
IssueKeys == {"T-1", "T-2", "T-3", "T-4", "T-5", "T-6", "T-7"}

TextNode(text) == Obj([type |-> Str(<<"text">>), text |-> Str(text)])
Paragraph(content) == Obj([type |-> Str(<<"paragraph">>), content |-> List(content)])
Doc(content) == Obj([type |-> Str(<<"doc">>), version |-> Num(1), content |-> List(content)])
InlineCard(url) == Obj([type |-> Str(<<"inlineCard">>), attrs |-> Obj([url |-> Str(url)])])

Png(name) == Obj([filename |-> Str(<<name>>), mimeType |-> Str(<<"IMAGE/PNG">>),
                  size |-> Num(1024), content |-> Str(<<"https://jira/att/", name>>)])
Pdf(name) == Obj([filename |-> Str(<<name>>), mimeType |-> Str(<<"application/pdf">>),
                  size |-> Num(2048), content |-> Str(<<"https://jira/att/", name>>)])

Fields(description, extra) ==
    Obj([summary |-> Str(<<"Checkout fails">>), description |-> description,
         labels |-> List(<<>>), issuetype |-> Obj([name |-> Str(<<"Story">>)])] @@ extra)

IssuePayload(key) ==
    CASE key = "T-1" ->
            Obj([id |-> "10001", key |-> Str(<<"T-1">>), fields |-> Fields(None, <<>>)])
      [] key = "T-2" ->
            Obj([id |-> "10002", key |-> Str(<<"T-2">>),
                 fields |-> Fields(Doc(<< Paragraph(<< TextNode(<<"Design", ":">>),
                                                       InlineCard(Url_FigmaFile) >>) >>),
                                   [attachment |-> List(<< Png("a.png"), Pdf("b.pdf") >>)])])
      [] key = "T-3" ->
            Obj([id |-> "10003", key |-> Str(<<"T-3">>),
                 fields |-> Fields(Str(<<"Pay", " ", "by", " ", "card">>),
                                   [parent |-> Obj([key |-> Str(<<"P-1">>)]),
                                    issuelinks |-> List(<< Inward(LinkType(Name_Blocks), Issue_B),
                                                           Outward(LinkType(Name_Causes), Issue_A) >>)])])
      [] key = "T-4" ->
            Obj([id |-> "10001", key |-> Str(<<"T-4">>),
                 fields |-> Fields(None,
                                   [parent |-> Obj([key |-> Str(<<" ">>)]),
                                    issuelinks |-> List(<< Outward(None, Issue_A) >>)])])
      [] key = "T-5" ->
            Obj([id |-> "10001", key |-> Str(<<"T-5">>),
                 fields |-> Fields(Str(<<"See", " ", Url_FigmaCommunity[1]>>),
                                   [parent |-> Obj([key |-> Str(<<>>)]),
                                    attachment |-> List(<< Obj([filename |-> Str(<<"c.png">>),
                                                                mimeType |-> None]) >>)])])
      [] key = "T-6" ->
            Obj([id |-> "10001", key |-> Str(<<"T-6">>),
                 fields |-> Fields(None,
                                   [parent |-> Obj([key |-> Str(<<"P-2">>)]),
                                    issuelinks |-> List(<< Obj([type |-> LinkType(Name_Blocks)]),
                                                           Outward(LinkType(Name_Relates), Issue_A) >>)])])
      [] key = "T-7" ->
            Obj([id |-> "10001", key |-> Str(<<"T-7">>),
                 fields |-> Fields(Doc(<< Paragraph(<< InlineCard(Url_FigmaFile) >>) >>),
                                   [parent |-> Obj([key |-> Str(<<"P-1">>)])])])

\* the payload of a parent issue; P-1 is itself the child of another issue
ParentPayload(key) ==
    IF key = <<"P-1">>
    THEN Obj([id |-> "20001", key |-> Str(<<"P-1">>),
              fields |-> Fields(Str(<<"Epic", " ", Url_FigmaFile[1]>>),
                                [attachment |-> List(<< Png("p.png") >>),
                                 parent |-> Obj([key |-> Str(<<"G-1">>)])])])
    ELSE Obj([id |-> "20002", key |-> Str(<<"P-2">>),
              fields |-> Obj([summary |-> Str(<<"Broken parent">>), description |-> None,
                              issuetype |-> None])])

Comment(id, author, body) ==
    Obj([id |-> Str(<<id>>), author |-> author, body |-> body,
         created |-> Str(<<"2025-01-0", id>>)])

\* the comments of an issue, oldest first
CommentsOf(key) ==
    CASE key = "T-2" ->
            << Comment("1", Obj([displayName |-> Str(<<"Ann">>)]),
                       Doc(<< Paragraph(<< TextNode(BOT_MARKER \o <<"\n", "\n", "old plan">>) >>) >>)),
               Comment("2", Obj([displayName |-> Str(<<"Bob">>)]),
                       Doc(<< Paragraph(<< TextNode(<<"Please", " ", "Verify", " ", "on", " ", "iOS">>) >>) >>)),
               Comment("3", Obj([emailAddress |-> Str(<<"cy@acme">>)]),
                       Doc(<< Paragraph(<< TextNode(<<"Shipped">>) >>) >>)) >>
      [] key = "T-6" ->
            << Comment("4", None, Doc(<< Paragraph(<< TextNode(<<"no author">>) >>) >>)) >>
      [] OTHER -> <<>>

\* summary.<data type>.byInstanceType of the dev-status summary: its keys in response order
SummaryInfo(issue_id) ==
    CASE issue_id = "10002" -> [repository |-> <<"GitHub">>, pullrequest |-> <<"GitHub">>]
      [] issue_id = "10003" -> [repository |-> <<"GitHub">>,
                                pullrequest |-> <<"GitHub", "stash">>,
                                branch |-> <<"stash">>]
      [] OTHER -> <<>>

JiraCommit(app_type, n) ==
    Obj([message |-> Str(<<"commit", n, "via", app_type>>),
         author |-> Obj([name |-> Str(<<"dev">>)]),
         url |-> Str(<<"https://", app_type, "/", "commit", "/", n>>)])

\* dev-status detail, dataType=repository
RepoData(issue_id, app_type) ==
    Obj([detail |-> List(<< Obj([repositories |-> List(<<
            Obj([commits |-> List(IF issue_id = "10002"
                                  THEN << JiraCommit(app_type, "1"), JiraCommit(app_type, "2") >>
                                  ELSE << JiraCommit(app_type, "1") >>),
                 branches |-> List(<< Obj([name |-> Str(<<"feature", "via", app_type>>)]),
                                      Obj([url |-> Str(<<"unnamed">>)]) >>)]) >>)]) >>)])

JiraPR(name, url) ==
    Obj([name |-> Str(<<name>>), status |-> Str(<<"OPEN">>), url |-> url,
         source |-> Obj([branch |-> Str(<<"feature">>)]),
         destination |-> Obj([branch |-> Str(<<"main">>)])])

\* dev-status detail, dataType=pullrequest
PrData(issue_id, app_type) ==
    Obj([detail |-> List(<< Obj([pullRequests |-> List(
            CASE issue_id = "10002" -> << JiraPR("branch view", Str(Url_GitHubTree)),
                                          JiraPR("PR 7", Str(Url_GitHubPR7)),
                                          JiraPR("PR 8", Str(Url_GitHubPR8)) >>
              [] issue_id = "10003" /\ app_type = "GitHub" -> << JiraPR("PR 8", Str(Url_GitHubPR8)) >>
              [] issue_id = "10003" /\ app_type = "stash" ->
                     << JiraPR("BB 7", Str(Url_Bitbucket)), Obj([name |-> Str(<<"no url">>)]) >>
              [] OTHER -> <<>>)]) >>)])

\* outcomes of an HTTP exchange
Outcomes == {"200", "401", "403", "404", "500", "ConnectError", "TimeoutException", "ReadError"}

GhExchanges ==
    { GhExchange("200", "200", "200", "200"),
      GhExchange("404", "200", "200", "200"),
      GhExchange("ConnectError", "200", "200", "200"),
      GhExchange("200", "403", "200", "200"),
      GhExchange("200", "200", "404", "200"),
      GhExchange("200", "200", "200", "TimeoutException") }

RepoExchanges ==
    { RepoExchange(<<"200", "200">>, "200", <<"404", "404">>, <<"404", "404">>),
      RepoExchange(<<"404", "200">>, "403", <<"404", "404">>, <<"404", "404">>),
      RepoExchange(<<"404", "404">>, "404", <<"404", "404">>, <<"404", "404">>),
      RepoExchange(<<"ConnectError", "200">>, "ConnectError",
                   <<"TimeoutException", "200">>, <<"404", "ReadError">>) }

FigmaExchanges ==
    { FigmaExchange("200", "200"), FigmaExchange("200", "500"),
      FigmaExchange("200", "TimeoutException"), FigmaExchange("404", "200"),
      FigmaExchange("403", "200"), FigmaExchange("ConnectError", "200") }

Msg_Expired == <<"T","o","k","e","n"," ","E","x","p","i","r","e","d">>
Msg_Invalid == <<"B","a","d"," ","t","o","k","e","n">>

\* bodies of a 401 answer
AuthBodies ==
    { NotJson, EmptyDict, Obj([errorMessages |-> List(<<>>)]),
      Obj([errorMessages |-> List(<< Str(Msg_Expired) >>)]),
      Obj([errorMessages |-> List(<< Str(Msg_Invalid), Str(Msg_Expired) >>)]) }

NoExc == [type |-> "none", status_code |-> 0, error_type |-> "none"]
Exception(type) == [type |-> type, status_code |-> 0, error_type |-> "none"]
JiraAuthError(status_code, error_type) ==
    [type |-> "JiraAuthError", status_code |-> status_code, error_type |-> error_type]

\* the state before any call
Idle ==
    /\ issue_key = <<>>
    /\ primary = NotCalled
    /\ data = NotCalled
    /\ description_str = <<>>
    /\ application_types = <<>>
    /\ pending = <<>>
    /\ commits = <<>>
    /\ pull_requests = <<>>
    /\ branches = <<>>
    /\ dev_result = NotCalled
    /\ development_info = None
    /\ attachments = <<>>
    /\ filtered_comments = None
    /\ parent_issue = None
    /\ link_lists = NoLinkLists
    /\ linked_issues = NotCalled
    /\ returned = NotCalled
    /\ exc = NoExc
    /\ calls = <<>>
    /\ http_status = 0
    /\ filter_result = NotCalled
    /\ frames_result = NotCalled
    /\ adf_result = NotCalled
    /\ analysis_result = NotCalled
    /\ post_result = NotCalled
    /\ written = {}
    /\ images_result = NotCalled
    /\ procs = <<>>
    /\ context_attempts = <<>>

\* the arguments of the functions that are called on their own
NoArgs == [comments |-> <<>>, node |-> NotCalled, adf |-> NotCalled,
           description |-> NotCalled, jira |-> <<>>, text |-> <<>>, images |-> NotCalled]

Args(a) ==
    /\ comments_arg = a.comments
    /\ node_arg = a.node
    /\ adf_arg = a.adf
    /\ description_arg = a.description
    /\ jira_comments = a.jira
    /\ comment_text = a.text
    /\ images_arg = a.images

(***************************************************************************)
(* Spec: GET /issue/{issue_key}, i.e. main.get_issue calling               *)
(* JiraClient.get_issue.  One action per stretch of code between two       *)
(* awaited requests.                                                       *)
(***************************************************************************)
Init ==
    /\ pc = "start"
    /\ github_token \in BOOLEAN
    /\ figma_token \in BOOLEAN
    /\ issue_links_data = <<>>
    /\ Args(NoArgs)
    /\ Idle

fields == Get(data, "fields", EmptyDict)
issue_id == data.v["id"]

\* lines 669-703: the primary issue read
PrimaryRead ==
    /\ pc = "start"
    /\ \E key \in IssueKeys, outcome \in Outcomes, body \in AuthBodies :
        /\ issue_key' = <<key>>
        /\ primary' = [outcome |-> outcome, body |-> IF outcome = "401" THEN body ELSE NotJson]
        /\ calls' = << Call("jira:issue", <<key>>, outcome) >>
        /\ LET Extracted(payload, text) ==
                   /\ data' = payload
                   /\ description_str' = IF text.raised THEN <<>> ELSE text.value
                   /\ exc' = IF text.raised THEN Exception(text.exc) ELSE NoExc
                   /\ pc' = IF text.raised THEN "raised" ELSE "dev_summary"
               Answered(payload) ==
                   Extracted(payload,
                             extract_text_from_adf(Get(Get(payload, "fields", EmptyDict),
                                                       "description", None)))
           IN  IF outcome = "200"
               THEN Answered(IssuePayload(key))
               ELSE /\ exc' = CASE outcome \in {"ConnectError", "TimeoutException"} ->
                                       Exception("JiraConnectionError")
                                [] outcome = "404" -> Exception("JiraNotFoundError")
                                [] outcome = "401" -> JiraAuthError(401, _parse_auth_error(body))
                                [] outcome = "403" ->
                                       JiraAuthError(403, "insufficient_permissions")
                                [] outcome = "500" -> Exception("HTTPStatusError")
                                [] OTHER -> Exception(outcome)
                    /\ pc' = "raised"
                    /\ UNCHANGED <<data, description_str>>
    /\ UNCHANGED <<settings_vars, util_vars, unit_vars, post_vars,
                   dev_vars, link_vars, development_info, attachments,
                   filtered_comments, parent_issue, returned, http_status>>

\* _get_development_info returns value
DevReturns(value) ==
    /\ dev_result' = value
    /\ development_info' = value
    /\ pc' = "figma"

\* lines 105-128: the summary request
DevSummary ==
    /\ pc = "dev_summary"
    /\ \E outcome \in Outcomes :
        /\ calls' = Append(calls, Call("jira:dev-summary", <<issue_id>>, outcome))
        /\ IF outcome # "200"
           THEN /\ DevReturns(None)
                /\ UNCHANGED <<application_types, pending>>
           ELSE /\ application_types' = ApplicationTypes(SummaryInfo(issue_id))
                /\ pending' \in SetIterationOrders(application_types')
                /\ pc' = IF pending' = <<>> THEN "dev_return" ELSE "dev_repo"
                /\ UNCHANGED <<dev_result, development_info>>
    /\ UNCHANGED <<settings_vars, util_vars, unit_vars, post_vars,
                   issue_key, primary, data, description_str, commits,
                   pull_requests, branches, attachments, filtered_comments, parent_issue,
                   link_vars, returned, exc, http_status>>

\* lines 132-149: the repository detail of the application type being visited
DevDetailRepo ==
    /\ pc = "dev_repo"
    /\ \E outcome \in Outcomes :
        LET app_type == Head(pending)
            repo_data == RepoData(issue_id, app_type)
        IN  /\ calls' = Append(calls, Call("jira:dev-detail", <<app_type, "repository">>, outcome))
            /\ IF IsException(outcome)
               THEN /\ DevReturns(None)
                    /\ UNCHANGED <<commits, branches>>
               ELSE /\ commits' = IF outcome = "200"
                                  THEN commits \o _extract_commits(repo_data) ELSE commits
                    /\ branches' = IF outcome = "200"
                                   THEN branches \o _extract_branches(repo_data) ELSE branches
                    /\ pc' = "dev_pr"
                    /\ UNCHANGED <<dev_result, development_info>>
    /\ UNCHANGED <<settings_vars, util_vars, unit_vars, post_vars,
                   issue_key, primary, data, description_str, application_types,
                   pending, pull_requests, attachments, filtered_comments, parent_issue,
                   link_vars, returned, exc, http_status>>

\* the GitHub exchanges of a pull request list: one per pull request that is
\* enriched, the first exchange for the others (they send nothing)
GhExchangesFor(prs) ==
    { xs \in [1..Len(prs) -> GhExchanges] :
        \A i \in 1..Len(prs) :
            ~WantsEnrichment(BasicPullRequest(prs[i]).url)
                => xs[i] = GhExchange("200", "200", "200", "200") }

\* lines 151-166: the pull request detail of the application type being visited
DevDetailPR ==
    /\ pc = "dev_pr"
    /\ \E outcome \in Outcomes :
        LET app_type == Head(pending)
            pr_data == PrData(issue_id, app_type)
            request == Call("jira:dev-detail", <<app_type, "pullrequest">>, outcome)
        IN  IF IsException(outcome)
            THEN /\ calls' = Append(calls, request)
                 /\ DevReturns(None)
                 /\ UNCHANGED <<pull_requests, pending>>
            ELSE /\ \E xs \in GhExchangesFor(PullRequestsOf(pr_data)) :
                      LET Extended(extracted_prs) ==
                              /\ pull_requests' = pull_requests \o extracted_prs.value
                              /\ calls' = Append(calls, request) \o extracted_prs.calls
                      IN  IF outcome = "200"
                          THEN Extended(_extract_pull_requests(pr_data, xs))
                          ELSE /\ calls' = Append(calls, request)
                               /\ UNCHANGED pull_requests
                 /\ pending' = Tail(pending)
                 /\ pc' = IF pending' = <<>> THEN "dev_return" ELSE "dev_repo"
                 /\ UNCHANGED <<dev_result, development_info>>
    /\ UNCHANGED <<settings_vars, util_vars, unit_vars, post_vars,
                   issue_key, primary, data, description_str, application_types,
                   commits, branches, attachments, filtered_comments, parent_issue,
                   link_vars, returned, exc, http_status>>

\* lines 174-197: None when nothing was found, else the repository context
\* is fetched and the DevelopmentInfo returned
DevReturn ==
    /\ pc = "dev_return"
    /\ IF NothingFound(commits, pull_requests, branches)
       THEN /\ DevReturns(None)
            /\ UNCHANGED <<calls, context_attempts>>
       ELSE \E x \in RepoExchanges :
              LET Found(repository_context) ==
                      /\ calls' = calls \o repository_context.calls
                      /\ context_attempts' = repository_context.attempts
                      /\ DevReturns(DevelopmentInfo(commits, pull_requests, branches,
                                                    repository_context.value, None))
              IN  Found(RepositoryContextOf(pull_requests, x))
    /\ UNCHANGED <<settings_vars, images_arg, images_result, procs, unit_vars, post_vars,
                   issue_key, primary, data, description_str, application_types,
                   pending, commits, pull_requests, branches, attachments, filtered_comments,
                   parent_issue, link_vars, returned, exc, http_status>>

\* lines 710-734: the design context of the description, then the image
\* attachments of the issue
Figma ==
    /\ pc = "figma"
    /\ \E x \in FigmaExchanges :
        LET Design(figma_context, images) ==
                /\ calls' = calls \o figma_context.calls
                /\ development_info' =
                       IF figma_context.value = None THEN development_info
                       ELSE IF development_info # None
                       THEN [development_info EXCEPT !.figma_context = figma_context.value]
                       ELSE DevelopmentInfo(<<>>, <<>>, <<>>, None, figma_context.value)
                /\ IF images.raised
                   THEN /\ exc' = Exception(images.exc)
                        /\ pc' = "raised"
                        /\ UNCHANGED attachments
                   ELSE /\ attachments' = images.value
                        /\ pc' = "comments"
                        /\ UNCHANGED exc
        IN  Design(FigmaContextOf(description_str, x),
                   _extract_image_attachments(Get(fields, "attachment", List(<<>>)).v))
    /\ UNCHANGED <<settings_vars, util_vars, unit_vars, post_vars,
                   dev_vars, issue_key, primary, data, description_str,
                   filtered_comments, parent_issue, link_vars, returned, http_status>>

\* lines 736-746: the comments of the issue; every exception is swallowed
Comments ==
    /\ pc = "comments"
    /\ \E outcome \in Outcomes :
        LET Filtered(comments_data, filtered) ==
                IF outcome = "200" /\ comments_data # <<>> /\ ~filtered.raised
                THEN List(filtered.value)
                ELSE None
            Fetched(comments_data) ==
                Filtered(comments_data, _filter_testing_comments(comments_data))
        IN  /\ calls' = Append(calls, Call("jira:comments", issue_key, outcome))
            /\ filtered_comments' = Fetched(CommentsOf(issue_key[1]))
    /\ pc' = "parent"
    /\ UNCHANGED <<settings_vars, util_vars, unit_vars, post_vars,
                   dev_vars, issue_key, primary, data, description_str,
                   development_info, attachments, parent_issue, link_vars, returned, exc,
                   http_status>>

\* lines 748-757: the parent of the issue, read when its key is a non-blank str
Parent ==
    /\ pc = "parent"
    /\ LET parent_data == Get(fields, "parent", None)
           parent_key == Get(parent_data, "key", None)
       IN  IF ~Truthy(parent_data)
           THEN /\ pc' = "linked"
                /\ UNCHANGED <<parent_issue, calls, exc>>
           ELSE IF ~HasGet(parent_data)
           THEN /\ exc' = Exception("AttributeError")
                /\ pc' = "raised"
                /\ UNCHANGED <<parent_issue, calls>>
           ELSE IF Truthy(parent_key) /\ parent_key.t = "str" /\ Strip(parent_key.v) # <<>>
           THEN \E outcome \in Outcomes, x \in FigmaExchanges :
                   LET Read(r) ==
                           /\ parent_issue' = r.value
                           /\ calls' = calls \o r.calls
                           /\ pc' = "linked"
                           /\ UNCHANGED exc
                   IN  Read(_get_parent_issue(parent_key.v, outcome,
                                              ParentPayload(parent_key.v), x))
           ELSE /\ pc' = "linked"
                /\ UNCHANGED <<parent_issue, calls, exc>>
    /\ UNCHANGED <<settings_vars, util_vars, unit_vars, post_vars,
                   dev_vars, issue_key, primary, data, description_str,
                   development_info, attachments, filtered_comments, link_vars, returned,
                   http_status>>

JiraIssue(key, summary, description, labels, issue_type, dev, images, comments, parent, links) ==
    [t |-> "JiraIssue", key |-> key, summary |-> summary, description |-> description,
     labels |-> labels, issue_type |-> issue_type, development_info |-> dev,
     attachments |-> images, comments |-> comments, parent |-> parent,
     linked_issues |-> links]

\* lines 770-801: the linked issues, then the JiraIssue is returned
LinkedAndReturn ==
    /\ pc = "linked"
    /\ LET issue_links == Get(fields, "issuelinks", List(<<>>))
           summary == Get(fields, "summary", None)
           Classified(lists) == link_lists' = IF lists.raised THEN NoLinkLists ELSE lists.value
           Return(r) ==
               /\ linked_issues' = r
               /\ IF r.raised
                  THEN /\ exc' = Exception(r.exc)
                       /\ pc' = "raised"
                       /\ UNCHANGED returned
                  ELSE /\ returned' =
                             JiraIssue(data.v["key"],
                                       IF Truthy(summary) THEN summary ELSE Str(<<>>),
                                       IF description_str # <<>>
                                       THEN Str(description_str) ELSE None,
                                       Get(fields, "labels", List(<<>>)),
                                       Get(Get(fields, "issuetype", EmptyDict), "name",
                                           Str(<<"Unknown">>)),
                                       development_info,
                                       IF attachments # <<>> THEN List(attachments) ELSE None,
                                       IF Truthy(filtered_comments)
                                       THEN filtered_comments ELSE None,
                                       parent_issue,
                                       r.value)
                       /\ pc' = "returned"
                       /\ UNCHANGED exc
       IN  /\ issue_links_data' = issue_links.v
           /\ Classified(ClassifyLinks(issue_links.v, NoLinkLists))
           /\ Return(IF Truthy(issue_links)
                     THEN _get_linked_issues(issue_links.v) ELSE Ok(None))
    /\ UNCHANGED <<settings_vars, util_vars, unit_vars, post_vars,
                   dev_vars, issue_key, primary, data, description_str,
                   development_info, attachments, filtered_comments, parent_issue, calls,
                   http_status>>

\* main.py, GET /issue/{issue_key}: the three Jira errors are mapped to a
\* status; any other exception is answered by the framework with 500
ApiRespond ==
    /\ pc \in {"returned", "raised"}
    /\ http_status' = CASE pc = "returned" -> 200
                        [] exc.type = "JiraNotFoundError" -> 404
                        [] exc.type = "JiraAuthError" -> exc.status_code
                        [] exc.type = "JiraConnectionError" -> 502
                        [] OTHER -> 500
    /\ pc' = "done"
    /\ UNCHANGED <<settings_vars, util_vars, unit_vars, post_vars,
                   dev_vars, issue_key, primary, data, description_str,
                   development_info, attachments, filtered_comments, parent_issue, link_vars,
                   returned, exc, calls>>

Next ==
    \/ PrimaryRead
    \/ DevSummary
    \/ DevDetailRepo
    \/ DevDetailPR
    \/ DevReturn
    \/ Figma
    \/ Comments
    \/ Parent
    \/ LinkedAndReturn
    \/ ApiRespond

Spec == Init /\ [][Next]_vars

(***************************************************************************)
(* SpecLinks: _get_linked_issues applied to every raw link list            *)
(***************************************************************************)
InitLinks ==
    /\ pc = "links"
    /\ github_token = FALSE
    /\ figma_token = FALSE
    /\ issue_links_data \in LinkInputs
    /\ Args(NoArgs)
    /\ Idle

GetLinkedIssues ==
    /\ pc = "links"
    /\ LET Classified(lists) == link_lists' = IF lists.raised THEN NoLinkLists ELSE lists.value
       IN  Classified(ClassifyLinks(issue_links_data, NoLinkLists))
    /\ linked_issues' = _get_linked_issues(issue_links_data)
    /\ pc' = "links_done"
    /\ UNCHANGED <<settings_vars, util_vars, unit_vars, post_vars,
                   dev_vars, issue_vars, issue_links_data>>

NextLinks == GetLinkedIssues

SpecLinks == InitLinks /\ [][NextLinks]_vars

(***************************************************************************)
(* SpecFilter: _filter_testing_comments applied to raw comment lists       *)
(***************************************************************************)
MaxShortComments == 3   \* longest list over all kinds of comment
MaxLongComments == 11   \* longest list over two kinds of comment

CommentKinds == {"testing", "shouting", "plain", "empty", "bot", "quoting"}

\* the body of a comment of each kind, as Jira returns it
CommentBody(kind) ==
    CASE kind = "testing"  -> Doc(<< Paragraph(<< TextNode(<<"please", " ", "test">>) >>) >>)
      [] kind = "shouting" -> Doc(<< Paragraph(<< TextNode(<<"Please", " ", "Verify">>) >>) >>)
      [] kind = "plain"    -> Doc(<< Paragraph(<< TextNode(<<"Shipped">>) >>) >>)
      [] kind = "empty"    -> Doc(<<>>)
      [] kind = "bot"      ->
            Doc(<< Paragraph(<< TextNode(BOT_MARKER \o <<"\n", "\n", "plan">>) >>) >>)
      [] kind = "quoting"  ->
            Doc(<< Paragraph(<< TextNode(<<"please", " ", "test", " ">>),
                                TextNode(BOT_MARKER) >>) >>)

\* the i-th comment of an issue
CommentAt(kind, i) ==
    Obj([id |-> Str(IntToStr(i)), author |-> Obj([displayName |-> Str(<<"Ann">>)]),
         body |-> CommentBody(kind), created |-> Str(<<"2025-01-">> \o IntToStr(i))])

CommentsOfKinds(kinds) == [i \in 1..Len(kinds) |-> CommentAt(kinds[i], i)]

CommentInputs ==
    { CommentsOfKinds(kinds) : kinds \in SeqsUpTo(CommentKinds, MaxShortComments) }
        \cup { CommentsOfKinds(kinds) :
                  kinds \in UNION { [1..n -> pair] :
                                       n \in 10..MaxLongComments,
                                       pair \in { {"testing", "plain"}, {"testing", "empty"} } } }

InitFilter ==
    /\ pc = "filter"
    /\ github_token = FALSE
    /\ figma_token = FALSE
    /\ issue_links_data = <<>>
    /\ \E c \in CommentInputs : Args([NoArgs EXCEPT !.comments = c])
    /\ Idle

FilterTestingComments ==
    /\ pc = "filter"
    /\ filter_result' = _filter_testing_comments(comments_arg)
    /\ pc' = "filter_done"
    /\ UNCHANGED <<settings_vars, util_vars, dev_vars, issue_vars, link_vars, post_vars, comments_arg,
                   node_arg, frames_result, adf_arg, adf_result, description_arg,
                   analysis_result>>

NextFilter == FilterTestingComments

SpecFilter == InitFilter /\ [][NextFilter]_vars

(***************************************************************************)
(* SpecFrames: FigmaClient._extract_frames applied to document trees       *)
(***************************************************************************)
MaxTreeDepth == 10   \* deepest level of a tree
MaxWidth == 52       \* most children of a node

\* a design node; its id is the path of child indices that leads to it
DesignNode(type, path, children) ==
    Obj([type |-> Str(<<type>>), name |-> Str(<<"node", " ">> \o path), id |-> Str(path),
         children |-> List(children)])

\* the tree in which a node at depth k has shape.widths[k + 1] children (none below the
\* last level), the first shape.skip of them TEXT nodes, and otherwise the type that
\* shape.types gives for its depth
RECURSIVE DesignTree(_, _, _, _)
DesignTree(shape, path, depth, index) ==
    LET width == IF depth < Len(shape.widths) THEN shape.widths[depth + 1] ELSE 0
        type == IF depth > 0 /\ index <= shape.skip THEN "TEXT"
                ELSE shape.types[(depth % Len(shape.types)) + 1]
    IN  DesignNode(type, path,
                   [i \in 1..width |->
                       DesignTree(shape, path \o IntToStr(i) \o <<".">>, depth + 1, i)])

TreeWidths ==
    { [k \in 1..d |-> 1] : d \in 0..MaxTreeDepth }
        \cup { <<n>> : n \in 49..MaxWidth }
        \cup { <<n, 1>> : n \in 49..MaxWidth }
        \cup { <<2, n>> : n \in 49..MaxWidth }
        \cup { <<3, 3, 3, 3, 3>>, <<2, 2, 2, 2, 2, 2>> }
        \cup { [k \in 1..MaxTreeDepth |-> IF k = 1 THEN 20 ELSE 1] }

TreeTypes ==
    { <<"FRAME">>, <<"DOCUMENT", "CANVAS", "FRAME", "COMPONENT", "GROUP">>,
      <<"GROUP", "FRAME">>, <<"DOCUMENT", "PAGE", "TEXT", "INSTANCE", "FRAME">> }

TreeInputs ==
    { DesignTree([widths |-> w, types |-> t, skip |-> k], <<>>, 0, 0) :
          w \in TreeWidths, t \in TreeTypes, k \in {0, 50} }

InitFrames ==
    /\ pc = "frames"
    /\ github_token = FALSE
    /\ figma_token = FALSE
    /\ issue_links_data = <<>>
    /\ \E tree \in TreeInputs : Args([NoArgs EXCEPT !.node = tree])
    /\ Idle

\* _extract_frames(document), as fetch_file_context calls it
ExtractFrames ==
    /\ pc = "frames"
    /\ frames_result' = _extract_frames(node_arg, 0, FIGMA_MAX_DEPTH)
    /\ pc' = "frames_done"
    /\ UNCHANGED <<settings_vars, util_vars, dev_vars, issue_vars, link_vars, post_vars, comments_arg,
                   filter_result, node_arg, adf_arg, adf_result, description_arg,
                   analysis_result>>

NextFrames == ExtractFrames

SpecFrames == InitFrames /\ [][NextFrames]_vars

(***************************************************************************)
(* SpecAdf: extract_text_from_adf applied to scalars and to documents      *)
(***************************************************************************)
MaxLeaves == 2   \* most inline nodes of a document

S_strike == <<"s","t","r","i","k","e">>
Mark(type) == Obj([type |-> Str(type)])
MarkedText(text, marks) == Obj([type |-> Str(<<"text">>), text |-> text, marks |-> marks])
Card(type, attrs) == Obj([type |-> Str(<<type>>), attrs |-> attrs])
Block(type, content) == Obj([type |-> Str(<<type>>), content |-> List(content)])

LeafText(j) == Str(<<"text", Digit(j)>>)
LeafUrl(j) == Str(<<"https://acme.example/", Digit(j)>>)

\* inline nodes as the Jira editor produces them
EditorLeaves ==
    {"plain", "strong", "strike", "strong strike", "strike em", "inlineCard", "blockCard"}
\* inline nodes with a field that is null or of another type than the editor gives it
OtherLeaves ==
    {"marks null", "marks number", "mark number", "text null", "attrs null", "attrs absent",
     "url number", "type null", "content text", "content null"}

\* the j-th inline node of a document
Leaf(kind, j) ==
    CASE kind = "plain"   -> TextNode(LeafText(j).v)
      [] kind = "strong"  -> MarkedText(LeafText(j), List(<< Mark(<<"strong">>) >>))
      [] kind = "strike"  -> MarkedText(LeafText(j), List(<< Mark(S_strike) >>))
      [] kind = "strong strike" ->
            MarkedText(LeafText(j), List(<< Mark(<<"strong">>), Mark(S_strike) >>))
      [] kind = "strike em" ->
            MarkedText(LeafText(j), List(<< Mark(S_strike), Mark(<<"em">>) >>))
      [] kind = "inlineCard" -> Card("inlineCard", Obj([url |-> LeafUrl(j)]))
      [] kind = "blockCard"  -> Card("blockCard", Obj([url |-> LeafUrl(j)]))
      [] kind = "marks null"   -> MarkedText(LeafText(j), None)
      [] kind = "marks number" -> MarkedText(LeafText(j), Num(1))
      [] kind = "mark number"  -> MarkedText(LeafText(j), List(<< Num(1) >>))
      [] kind = "text null"    -> Obj([type |-> Str(<<"text">>), text |-> None])
      [] kind = "attrs null"   -> Card("inlineCard", None)
      [] kind = "attrs absent" -> Obj([type |-> Str(<<"inlineCard">>)])
      [] kind = "url number"   -> Card("blockCard", Obj([url |-> Num(7)]))
      [] kind = "type null"    -> Obj([type |-> None, text |-> LeafText(j)])
      [] kind = "content text" -> Obj([type |-> Str(<<"paragraph">>), content |-> LeafText(j)])
      [] kind = "content null" -> Obj([type |-> Str(<<"paragraph">>), content |-> None])

Wrappers == {"doc", "paragraph", "bullet", "nested", "table"}

\* a document that holds the inline nodes at the place the wrapper names
Wrapped(wrapper, leaves) ==
    CASE wrapper = "doc"       -> Doc(leaves)
      [] wrapper = "paragraph" -> Doc(<< Paragraph(leaves) >>)
      [] wrapper = "bullet"    ->
            Doc(<< Block("bulletList", << Block("listItem", << Paragraph(leaves) >>) >>) >>)
      [] wrapper = "nested"    ->
            Doc(<< Block("orderedList",
                     << Block("listItem",
                          << Paragraph(Prefix(leaves, 1)),
                             Block("bulletList",
                               << Block("listItem",
                                    << Paragraph(SubSeq(leaves, 2, Len(leaves))) >>) >>)
                          >>) >>) >>)
      [] wrapper = "table"     ->
            Doc(<< Block("table",
                     << Block("tableRow",
                          << Block("tableCell", << Paragraph(leaves) >>) >>) >>) >>)

LeavesOfKinds(kinds) == [j \in 1..Len(kinds) |-> Leaf(kinds[j], j)]

ScalarInputs ==
    { None, Str(<<>>), Str(<<" ", "a", " ", "b", "\n">>), Num(0), Num(42), List(<<>>),
      List(<< Num(1), None, Str(<<"a">>) >>) }

AdfInputs ==
    ScalarInputs
        \cup { Wrapped(w, LeavesOfKinds(kinds)) :
                  w \in Wrappers, kinds \in SeqsUpTo(EditorLeaves \cup OtherLeaves, MaxLeaves) }

InitAdf ==
    /\ pc = "adf"
    /\ github_token = FALSE
    /\ figma_token = FALSE
    /\ issue_links_data = <<>>
    /\ \E adf \in AdfInputs : Args([NoArgs EXCEPT !.adf = adf])
    /\ Idle

ExtractTextFromAdf ==
    /\ pc = "adf"
    /\ adf_result' = extract_text_from_adf(adf_arg)
    /\ pc' = "adf_done"
    /\ UNCHANGED <<settings_vars, util_vars, dev_vars, issue_vars, link_vars, post_vars, comments_arg,
                   filter_result, node_arg, frames_result, adf_arg, description_arg,
                   analysis_result>>

NextAdf == ExtractTextFromAdf

SpecAdf == InitAdf /\ [][NextAdf]_vars

(***************************************************************************)
(* SpecAnalyze: analyze_description applied to descriptions                *)
(***************************************************************************)
MaxWords == 11      \* most filler words of a description
MaxWordLen == 52    \* most characters of its long filler word

\* phrases put at the end of a description
AcPhrases ==
    { <<>>,
      <<"g", "i", "v", "e", "n">>,
      <<"G", "I", "V", "E", "N">>,
      <<"w", "h", "e", "n">>,
      <<"T", "h", "e", "n">>,
      <<"a", "c", ":">>,
      <<"A", "C", ":">>,
      <<"a", "c", "c", "e", "p", "t", "a", "n", "c", "e", " ", "c", "r", "i", "t", "e", "r", "i", "a">>,
      <<"A", "c", "c", "e", "p", "t", "a", "n", "c", "e", " ", "C", "r", "i", "t", "e", "r", "i", "a">>,
      <<"a", "c", "c", "e", "p", "t", "a", "n", "c", "e", ":">>,
      <<"s", "h", "o", "u", "l", "d", ":">>,
      <<"m", "u", "s", "t", ":">>,
      <<"s", "h", "o", "u", "l", "d">>,
      <<"a", "c", "c", "e", "p", "t", "a", "n", "c", "e">> }
TestPhrases ==
    { <<>>,
      <<"t", "e", "s", "t">>,
      <<"V", "e", "r", "i", "f", "y">>,
      <<"e", "x", "p", "e", "c", "t", "e", "d">> }

\* n words of one character, the last one stretched to m characters
Filler(n, m) ==
    [i \in 1..(IF n = 0 THEN 0 ELSE 2 * (n - 1) + m) |->
        IF i < 2 * n - 1 /\ i % 2 = 0 THEN " " ELSE "x"]

WithPhrase(text, phrase) ==
    IF phrase = <<>> THEN text ELSE IF text = <<>> THEN phrase ELSE text \o <<" ">> \o phrase

DescriptionInputs ==
    { None, Str(<<>>), Str(<<" ", "\n", " ">>) }
        \cup { Str(pad.lead \o WithPhrase(WithPhrase(Filler(n, m), ac), test) \o pad.trail) :
                  n \in 0..MaxWords, m \in 40..MaxWordLen, ac \in AcPhrases,
                  test \in TestPhrases,
                  pad \in { [lead |-> <<>>, trail |-> <<>>],
                            [lead |-> <<" ">>, trail |-> <<" ", "\n">>] } }

InitAnalyze ==
    /\ pc = "analyze"
    /\ github_token = FALSE
    /\ figma_token = FALSE
    /\ issue_links_data = <<>>
    /\ \E d \in DescriptionInputs : Args([NoArgs EXCEPT !.description = d])
    /\ Idle

AnalyzeDescription ==
    /\ pc = "analyze"
    /\ analysis_result' = analyze_description(description_arg)
    /\ pc' = "analyze_done"
    /\ UNCHANGED <<settings_vars, util_vars, dev_vars, issue_vars, link_vars, post_vars, comments_arg,
                   filter_result, node_arg, frames_result, adf_arg, adf_result,
                   description_arg>>

NextAnalyze == AnalyzeDescription

SpecAnalyze == InitAnalyze /\ [][NextAnalyze]_vars

(***************************************************************************)
(* resource_utils.py: get_all_images, and SpecImages that applies it       *)
(***************************************************************************)
CHILD_IMAGE_LIMIT == 2

\* line 71
RemainingSlots(max_images, images) == max_images - Len(images)

get_all_images(issue, max_images) ==
    LET \* lines 69-74
        WithParent(images, remaining_slots) ==
            IF issue.parent # None /\ issue.parent.attachments # <<>> /\ remaining_slots > 0
            THEN images \o Prefix(issue.parent.attachments, remaining_slots)
            ELSE images
        Own(images) == WithParent(images, RemainingSlots(max_images, images))
    IN  \* lines 63-66
        Own(IF issue.attachments # <<>> THEN Prefix(issue.attachments, CHILD_IMAGE_LIMIT)
            ELSE <<>>)

MaxOwnImages == 3      \* most images of an issue
MaxParentImages == 3   \* most images of its parent
MaxImagesArg == 5      \* largest max_images

Image(owner, i) ==
    Attachment(Str(<<owner>> \o IntToStr(i)), Str(<<"image/png">>), Num(1),
               Str(<<"https://jira/", owner>> \o IntToStr(i)), None)
ImagesOf(owner, n) == [i \in 1..n |-> Image(owner, i)]

IssueWithImages(own, parent) ==
    JiraIssue(Str(<<"T-1">>), Str(<<"Summary">>), None, <<>>, Str(<<"Sub-task">>), None,
              own, None, parent, None)
ParentWithImages(images) ==
    ParentIssue(Str(<<"T-0">>), Str(<<"Parent">>), None, Str(<<"Story">>), <<>>, images, None)

ImageInputs ==
    { [issue |-> IssueWithImages(ImagesOf("own", n), parent), max_images |-> k] :
          n \in 0..MaxOwnImages,
          parent \in {None} \cup { ParentWithImages(ImagesOf("parent", m)) :
                                       m \in 0..MaxParentImages },
          k \in 0..MaxImagesArg }

InitImages ==
    /\ pc = "images"
    /\ github_token = FALSE
    /\ figma_token = FALSE
    /\ issue_links_data = <<>>
    /\ \E a \in ImageInputs : Args([NoArgs EXCEPT !.images = a])
    /\ Idle

GetAllImages ==
    /\ pc = "images"
    /\ images_result' = get_all_images(images_arg.issue, images_arg.max_images)
    /\ pc' = "images_done"
    /\ UNCHANGED <<settings_vars, dev_vars, issue_vars, link_vars, unit_vars, post_vars,
                   images_arg, procs, context_attempts>>

NextImages == GetAllImages

SpecImages == InitImages /\ [][NextImages]_vars

(***************************************************************************)
(* SpecPost: JiraClient.post_comment and the comments step of get_issue    *)
(* on one issue whose comments users and post_comment add to.              *)
(***************************************************************************)
MaxStoredComments == 2   \* comments the issue holds before a call adds one

SiteKinds == {"testing", "plain", "bot", "quoting"}
CommentTexts == { <<"Plan", " ", "A">>, <<"test", " ", "login">> }
PostOutcomes == {"200", "401", "403", "404", "500", "ConnectError"}
S_issue == <<"T-1">>

\* line 826 without the marker
unmarked_text(text) == text

\* line 826
marked_text(text) == BOT_MARKER \o <<"\n", "\n">> \o text

\* lines 861-877 and 967-983: the ADF body sent for a plain text
CommentPayload(text) == Doc(<< Paragraph(<< TextNode(text) >>) >>)

\* the comment Jira stores for a create request
CreatedComment(i, text) ==
    Obj([id |-> Str(IntToStr(i)), author |-> Obj([displayName |-> Str(<<"Bot">>)]),
         body |-> CommentPayload(text), created |-> Str(<<"2025-01-">> \o IntToStr(i))])

\* lines 890-901, 930-941, 996-1007: the exception of a request that is not answered 200
JiraError(outcome) ==
    CASE outcome \in {"ConnectError", "TimeoutException"} -> Exception("JiraConnectionError")
      [] outcome = "404" -> Exception("JiraNotFoundError")
      [] outcome = "401" -> JiraAuthError(401, _parse_auth_error(NotJson))
      [] outcome = "403" -> JiraAuthError(403, "insufficient_permissions")
      [] outcome = "500" -> Exception("HTTPStatusError")
      [] OTHER -> Exception(outcome)

\* lines 835-845 for one comment: "found", "absent", or "error" when a .get or `in` raises
MarkerCheck(comment) ==
    LET body == Get(comment, "body", EmptyDict)
        content == Get(body, "content", List(<<>>))
        first_para == content.v[1]
        para_content == Get(first_para, "content", List(<<>>))
        first_run == para_content.v[1]
        text == Get(first_run, "text", Str(<<>>))
    IN  IF ~HasGet(comment) \/ ~HasGet(body) THEN "error"
        ELSE IF Get(body, "type", None) # Str(<<"doc">>) THEN "absent"
        ELSE IF content.t # "list" THEN "error"
        ELSE IF content.v = <<>> THEN "absent"
        ELSE IF ~HasGet(first_para) THEN "error"
        ELSE IF Get(first_para, "type", None) # Str(<<"paragraph">>) THEN "absent"
        ELSE IF para_content.t # "list" THEN "error"
        ELSE IF para_content.v = <<>> THEN "absent"
        ELSE IF ~HasGet(first_run) \/ text.t # "str" THEN "error"
        ELSE IF Contains(text.v, BOT_MARKER) THEN "found"
        ELSE "absent"

\* the search of lines 833-851 finding no comment
FindNothing(existing_comments, i) == Ok(0)

\* the loop at lines 833-851: Ok(index of the first comment that carries the marker, 0 if
\* none does) or Raise
RECURSIVE FindExisting(_, _)
FindExisting(existing_comments, i) ==
    IF i > Len(existing_comments) THEN Ok(0)
    ELSE LET Checked(found) ==
                 IF found = "error" THEN Raise("AttributeError")
                 ELSE IF found = "found" THEN Ok(i)
                 ELSE FindExisting(existing_comments, i + 1)
         IN  Checked(MarkerCheck(existing_comments[i]))

\* lines 830-845 with a failed get_comments taken for an answer
ExistingCommentDespiteFailure(site, got) == FindExisting(site, 1)

\* lines 830-845: get_comments, then the search; Raise when either raises
ExistingComment(site, got) ==
    IF Fails(got) THEN Raise(JiraError(got).type) ELSE FindExisting(site, 1)

\* post_comment on an issue that holds the comments `site`; got, put and posted are the
\* outcomes of the get, the update and the create request (each used only if it is sent)
post_comment(site, text, got, put, posted) ==
    LET read == Call("jira:comments", S_issue, got)
        \* lines 857-905
        Create(sent, marked) ==
            IF Fails(posted)
            THEN [returned |-> None, exc |-> JiraError(posted), from |-> "create",
                  calls |-> Append(sent, Call("jira:create", S_issue, posted)), site |-> site]
            ELSE [returned |-> [id |-> Str(IntToStr(Len(site) + 1)), updated |-> FALSE],
                  exc |-> NoExc, from |-> "none",
                  calls |-> Append(sent, Call("jira:create", S_issue, posted)),
                  site |-> Append(site, CreatedComment(Len(site) + 1, marked))]
        \* lines 847-851, and line 852 when update_comment raises
        Update(i, marked) ==
            IF Fails(put)
            THEN Create(<< read, Call("jira:update", site[i].v.id.v, put) >>, marked)
            ELSE [returned |-> [id |-> site[i].v.id, updated |-> TRUE],
                  exc |-> NoExc, from |-> "none",
                  calls |-> << read, Call("jira:update", site[i].v.id.v, put) >>,
                  site |-> [site EXCEPT ![i].v.body = CommentPayload(marked)]]
        Found(existing, marked) ==
            IF existing.raised \/ existing.value = 0 THEN Create(<< read >>, marked)
            ELSE Update(existing.value, marked)
    IN  Found(ExistingComment(site, got), marked_text(text))

InitPost ==
    /\ pc = "site"
    /\ github_token = FALSE
    /\ figma_token = FALSE
    /\ issue_links_data = <<>>
    /\ Args(NoArgs)
    /\ Idle

\* a user adds a comment to the issue in Jira
UserComment ==
    /\ pc = "site"
    /\ Len(jira_comments) < MaxStoredComments
    /\ \E kind \in SiteKinds :
        jira_comments' = Append(jira_comments, CommentAt(kind, Len(jira_comments) + 1))
    /\ UNCHANGED <<settings_vars, util_vars, pc, dev_vars, issue_vars, link_vars, unit_vars,
                   comment_text, post_result, written>>

\* lines 803-905: one call of post_comment
PostComment ==
    /\ pc = "site"
    /\ Len(jira_comments) < MaxStoredComments
    /\ \E text \in CommentTexts, got \in PostOutcomes, put \in PostOutcomes,
          posted \in PostOutcomes :
        LET Done(r) ==
                /\ post_result' = [returned |-> r.returned, exc |-> r.exc, from |-> r.from,
                                   calls |-> r.calls]
                /\ jira_comments' = r.site
                /\ written' = IF r.returned = None THEN written
                              ELSE written \cup { r.returned.id }
        IN  /\ comment_text' = text
            /\ Done(post_comment(jira_comments, text, got, put, posted))
    /\ UNCHANGED <<settings_vars, util_vars, pc, dev_vars, issue_vars, link_vars, unit_vars>>

\* lines 736-746 of get_issue on the comments the issue holds now
GetIssueComments ==
    /\ pc = "site"
    /\ \E outcome \in PostOutcomes :
        LET Filtered(filtered) ==
                IF outcome = "200" /\ jira_comments # <<>> /\ ~filtered.raised
                THEN List(filtered.value)
                ELSE None
        IN  filtered_comments' = Filtered(_filter_testing_comments(jira_comments))
    /\ UNCHANGED <<settings_vars, util_vars, pc, dev_vars, issue_key, primary, data, description_str,
                   development_info, attachments, parent_issue, returned, exc, calls,
                   http_status, link_vars, unit_vars, post_vars>>

NextPost ==
    \/ UserComment
    \/ PostComment
    \/ GetIssueComments

SpecPost == InitPost /\ [][NextPost]_vars

(***************************************************************************)
(* SpecCalls: post_comment calls on one issue, one request at a time.  A   *)
(* call gives up control at each await (get_comments, update_comment, the  *)
(* POST), where another call may run.                                      *)
(***************************************************************************)
MaxCalls == 2   \* post_comment calls started on the issue

CallOutcomes == {"200", "404", "ConnectError"}
PriorSites == { <<>>, << CommentAt("plain", 1) >>, << CommentAt("bot", 1) >>,
                << CommentAt("testing", 1), CommentAt("bot", 2) >> }

\* the locals of a post_comment call that has not sent a request yet; alone: no
\* other call is in flight; answered: every request of the call was answered 200
NewCall(text, alone) ==
    [pc |-> "get", text |-> text, comment_id |-> None, returned |-> None, exc |-> NoExc,
     alone |-> alone, answered |-> TRUE]

\* the position of the comment with this id
PositionOf(site, comment_id) == CHOOSE k \in 1..Len(site) : site[k].v.id = comment_id

InitCalls ==
    /\ pc = "calls"
    /\ github_token = FALSE
    /\ figma_token = FALSE
    /\ issue_links_data = <<>>
    /\ \E site \in PriorSites : Args([NoArgs EXCEPT !.jira = site])
    /\ Idle

\* post_comment is called: lines 824-826
StartCall ==
    /\ pc = "calls"
    /\ Len(procs) < MaxCalls
    /\ \E text \in CommentTexts :
        procs' = Append(procs, NewCall(text, \A i \in 1..Len(procs) : procs[i].pc = "done"))
    /\ UNCHANGED <<settings_vars, images_arg, images_result, context_attempts, pc, dev_vars,
                   issue_vars, link_vars, unit_vars, post_vars>>

\* lines 830-852 up to the update request: get_comments is answered and searched
GetComments(p) ==
    /\ pc = "calls"
    /\ procs[p].pc = "get"
    /\ \E got \in CallOutcomes :
        LET Searched(existing) ==
                procs' = [procs EXCEPT
                    ![p].pc = IF existing.raised \/ existing.value = 0
                              THEN "create" ELSE "update",
                    ![p].comment_id = IF existing.raised \/ existing.value = 0 THEN None
                                      ELSE Get(jira_comments[existing.value], "id", None),
                    ![p].answered = @ /\ got = "200"]
        IN  Searched(ExistingComment(jira_comments, got))
    /\ UNCHANGED <<settings_vars, images_arg, images_result, context_attempts, pc, dev_vars,
                   issue_vars, link_vars, unit_vars, post_vars>>

\* lines 849-852: update_comment is answered; when it raises the call goes on to create
UpdateComment(p) ==
    /\ pc = "calls"
    /\ procs[p].pc = "update"
    /\ \E put \in CallOutcomes :
        IF Fails(put)
        THEN /\ procs' = [procs EXCEPT ![p].pc = "create", ![p].answered = FALSE]
             /\ UNCHANGED jira_comments
        ELSE /\ jira_comments' =
                    [jira_comments EXCEPT
                        ![PositionOf(jira_comments, procs[p].comment_id)].v.body =
                            CommentPayload(marked_text(procs[p].text))]
             /\ procs' = [procs EXCEPT
                    ![p].pc = "done",
                    ![p].returned = [id |-> procs[p].comment_id, updated |-> TRUE]]
    /\ UNCHANGED <<settings_vars, images_arg, images_result, context_attempts, pc, dev_vars,
                   issue_vars, link_vars, unit_vars, comment_text, post_result, written>>

\* lines 857-905: the create request is answered
CreateComment(p) ==
    /\ pc = "calls"
    /\ procs[p].pc = "create"
    /\ \E posted \in CallOutcomes :
        IF Fails(posted)
        THEN /\ procs' = [procs EXCEPT ![p].pc = "done", ![p].exc = JiraError(posted),
                                       ![p].answered = FALSE]
             /\ UNCHANGED jira_comments
        ELSE /\ jira_comments' =
                    Append(jira_comments,
                           CreatedComment(Len(jira_comments) + 1, marked_text(procs[p].text)))
             /\ procs' = [procs EXCEPT
                    ![p].pc = "done",
                    ![p].returned = [id |-> Str(IntToStr(Len(jira_comments) + 1)),
                                     updated |-> FALSE]]
    /\ UNCHANGED <<settings_vars, images_arg, images_result, context_attempts, pc, dev_vars,
                   issue_vars, link_vars, unit_vars, comment_text, post_result, written>>

NextCalls ==
    \/ StartCall
    \/ \E p \in 1..Len(procs) : GetComments(p)
    \/ \E p \in 1..Len(procs) : UpdateComment(p)
    \/ \E p \in 1..Len(procs) : CreateComment(p)

SpecCalls == InitCalls /\ [][NextCalls]_vars

(***************************************************************************)
(* Properties of GET /issue/{issue_key} (Spec)                             *)
(***************************************************************************)
PrimaryAnswered(outcome) == primary # NotCalled /\ primary.outcome = outcome

CallsTo(api) == { i \in 1..Len(calls) : calls[i].api = api }
FailedCallsTo(api) == { i \in CallsTo(api) : ~calls[i].ok }

\* a JSON value that holds a null somewhere
RECURSIVE HasNull(_)
HasNull(j) ==
    CASE j.t = "None" -> TRUE
      [] j.t = "dict" -> \E k \in DOMAIN j.v : HasNull(j.v[k])
      [] j.t = "list" -> \E i \in 1..Len(j.v) : HasNull(j.v[i])
      [] OTHER -> FALSE

\* the link and attachment entries of the primary payload hold no null
EntriesWellFormed ==
    /\ ~HasNull(Get(fields, "issuelinks", List(<<>>)))
    /\ ~HasNull(Get(fields, "attachment", List(<<>>)))

ReturnedDevelopmentInfo == returned.development_info
NoDevelopmentActivity(dev) ==
    dev = None \/ (dev.commits = <<>> /\ dev.pull_requests = <<>> /\ dev.branches = <<>>
                   /\ dev.repository_context = None)
NoFigmaContext(x) == x = None \/ x.figma_context = None

\* C1: whenever the primary issue read answered 200, get_issue returns a
\* JiraIssue without raising, whatever each secondary call produced, and a
\* component whose call failed contributes nothing to the returned issue:
\* no comments after a failed comment list, no parent after a failed parent
\* read, no development activity after a failed dev-status summary, no
\* design context after a failed Figma file read.
C1_SecondaryFailuresAbsorbed ==
    (pc = "done" /\ PrimaryAnswered("200")) =>
        /\ exc = NoExc
        /\ returned # NotCalled
        /\ http_status = 200
        /\ FailedCallsTo("jira:comments") # {} => returned.comments = None
        /\ (\E i \in FailedCallsTo("jira:issue") : i > 1) => returned.parent = None
        /\ FailedCallsTo("jira:dev-summary") # {}
               => NoDevelopmentActivity(ReturnedDevelopmentInfo)
        /\ FailedCallsTo("figma:file") # {}
               => NoFigmaContext(ReturnedDevelopmentInfo) /\ NoFigmaContext(returned.parent)

\* C2: when the primary read answered 200 and a link or attachment entry of
\* the payload holds a null nested field, get_issue still returns a JiraIssue.
C2_MalformedDataAbsorbed ==
    (pc \in {"raised", "done"} /\ PrimaryAnswered("200") /\ ~EntriesWellFormed) =>
        pc = "done" /\ returned # NotCalled /\ exc = NoExc

\* the first error message of a 401 body mentions "expired", in any case
MentionsExpired(body) ==
    /\ HasGet(body)
    /\ "errorMessages" \in DOMAIN body.v
    /\ body.v["errorMessages"].t = "list"
    /\ body.v["errorMessages"].v # <<>>
    /\ Contains(Lower(body.v["errorMessages"].v[1].v), S_expired)

\* C3: a failed primary read raises exactly the classified error (404:
\* JiraNotFoundError; 401: JiraAuthError 401 of type expired when the Jira
\* error message mentions "expired", else invalid; 403: JiraAuthError 403 of
\* type insufficient_permissions; connect error or timeout:
\* JiraConnectionError), no other request is sent, and GET /issue/{key}
\* answers 404, 401, 403 and 502 respectively.
C3_PrimaryFailureClassified ==
    (pc \in {"raised", "done"} /\ ~PrimaryAnswered("200")) =>
        /\ returned = NotCalled
        /\ Len(calls) = 1
        /\ primary.outcome = "404" =>
              /\ exc = Exception("JiraNotFoundError")
              /\ pc = "done" => http_status = 404
        /\ primary.outcome = "401" =>
              /\ exc = JiraAuthError(401, IF MentionsExpired(primary.body)
                                          THEN "expired" ELSE "invalid")
              /\ pc = "done" => http_status = 401
        /\ primary.outcome = "403" =>
              /\ exc = JiraAuthError(403, "insufficient_permissions")
              /\ pc = "done" => http_status = 403
        /\ primary.outcome \in {"ConnectError", "TimeoutException"} =>
              /\ exc = Exception("JiraConnectionError")
              /\ pc = "done" => http_status = 502

\* a 401 whose message says "Token Expired" was answered with 401, type expired
C3_Witness ==
    /\ pc = "done"
    /\ PrimaryAnswered("401")
    /\ primary.body = Obj([errorMessages |-> List(<< Str(Msg_Expired) >>)])
    /\ exc.error_type = "expired"
    /\ http_status = 401

EnrichmentFields ==
    {"github_description", "files_changed", "total_additions", "total_deletions", "comments"}
Enriched(pr) == \E f \in EnrichmentFields : pr[f] # None
TargetsGitHub(url) == url.t = "str" /\ Contains(url.v, S_github_com)

\* C5: in every DevelopmentInfo returned, a pull request with an enrichment
\* field set has a URL on github.com and a GitHub token is configured; all
\* five fields of every other pull request are None, and nothing is raised.
C5_EnrichmentOnlyForGitHub ==
    dev_result \notin {NotCalled, None} =>
        /\ \A i \in 1..Len(dev_result.pull_requests) :
              LET pr == dev_result.pull_requests[i]
              IN  /\ Enriched(pr) => (github_token /\ TargetsGitHub(pr.url))
                  /\ ~(github_token /\ TargetsGitHub(pr.url)) =>
                         \A f \in EnrichmentFields : pr[f] = None
        /\ pc = "figma" => exc = NoExc

\* a DevelopmentInfo with an enriched GitHub pull request, a Bitbucket pull
\* request and a pull request without URL, both left as Jira reported them
C5_Witness ==
    /\ dev_result \notin {NotCalled, None}
    /\ \E i, j, k \in 1..Len(dev_result.pull_requests) :
          /\ Enriched(dev_result.pull_requests[i])
          /\ dev_result.pull_requests[j].url = Str(Url_Bitbucket)
          /\ ~Enriched(dev_result.pull_requests[j])
          /\ dev_result.pull_requests[k].url = None
          /\ ~Enriched(dev_result.pull_requests[k])

\* the branches of the application types, visited in the given order
RECURSIVE BranchesInOrder(_, _)
BranchesInOrder(id, types) ==
    IF types = <<>> THEN <<>>
    ELSE _extract_branches(RepoData(id, Head(types))) \o BranchesInOrder(id, Tail(types))

RECURSIVE CommitsInOrder(_, _)
CommitsInOrder(id, types) ==
    IF types = <<>> THEN <<>>
    ELSE _extract_commits(RepoData(id, Head(types))) \o CommitsInOrder(id, Tail(types))

\* C6: the order of the lists of a returned DevelopmentInfo is fixed by the
\* responses: when every dev-status request was answered 200, commits and
\* branches follow the order in which the summary named the application
\* types (discovered order), also with two or more application types.
C6_DiscoveredOrder ==
    (dev_result \notin {NotCalled, None}
         /\ FailedCallsTo("jira:dev-detail") = {}) =>
        /\ dev_result.commits = CommitsInOrder(issue_id, application_types)
        /\ dev_result.branches = BranchesInOrder(issue_id, application_types)

IssueReads == CallsTo("jira:issue")

\* C7: one get_issue call reads at most one issue besides the primary one:
\* the issue named by the non-empty key of the primary payload's parent
\* reference; neither the parent's parent nor a linked issue is read.
C7_TraversalDepthOne ==
    /\ Cardinality(IssueReads) <= 2
    /\ \A i \in IssueReads \ {1} :
          LET parent_key == Get(Get(fields, "parent", EmptyDict), "key", None)
          IN  /\ parent_key.t = "str"
              /\ parent_key.v # <<>>
              /\ calls[i].arg = parent_key.v

\* T-3 was returned with its parent P-1 (itself the child of G-1) and its
\* linked issues, after two issue reads
C7_Witness ==
    /\ pc = "done"
    /\ returned # NotCalled
    /\ Cardinality(IssueReads) = 2
    /\ returned.parent # None
    /\ "parent" \in DOMAIN ParentPayload(returned.parent.key.v).v["fields"].v
    /\ returned.linked_issues # None

(***************************************************************************)
(* Properties of _get_linked_issues (SpecLinks)                            *)
(***************************************************************************)
LinksDone == pc = "links_done"

\* the lower-cased type name of a raw link; "" when it has none
TypeName(link) ==
    LET type == IF HasGet(link) THEN Get(link, "type", EmptyDict) ELSE EmptyDict
        name == IF HasGet(type) THEN Get(type, "name", Str(<<>>)) ELSE Str(<<>>)
    IN  IF name.t = "str" THEN Lower(name.v) ELSE <<>>

InBlocksFamily(link) == Contains(TypeName(link), S_block)
InCausesFamily(link) == ~InBlocksFamily(link) /\ Contains(TypeName(link), S_cause)
InFamily(link) == InBlocksFamily(link) \/ InCausesFamily(link)

NestedIssue(link, side) == IF HasGet(link) THEN Get(link, side, None) ELSE None
HasNested(link, side) == Truthy(NestedIssue(link, side))

AllEntries(lists) == lists.blocks \o lists.blocked_by \o lists.causes \o lists.caused_by
Placeholders(lists) ==
    { i \in 1..Len(AllEntries(lists)) : AllEntries(lists)[i].key = Str(S_UNKNOWN) }
Unresolved(links) ==
    { i \in 1..Len(links) : /\ InFamily(links[i])
                            /\ ~HasNested(links[i], "inwardIssue")
                            /\ ~HasNested(links[i], "outwardIssue") }

\* C8: every link of the blocks or causes family whose nested issue data is
\* missing, null or empty is represented, before truncation, by a placeholder
\* entry with key UNKNOWN.
C8_UnresolvedLinkHasPlaceholder ==
    (LinksDone /\ ~linked_issues.raised) =>
        Cardinality(Placeholders(link_lists)) >= Cardinality(Unresolved(issue_links_data))

\* C9: the result is None exactly when no raw link is of either family;
\* otherwise it is an object with the four lists blocks, blocked_by, causes
\* and caused_by.
C9_NoneIffNoMatch ==
    (LinksDone /\ ~linked_issues.raised) =>
        /\ linked_issues.value = None
              <=> \A i \in 1..Len(issue_links_data) : ~InFamily(issue_links_data[i])
        /\ linked_issues.value # None =>
              {"blocks", "blocked_by", "causes", "caused_by"} \subseteq DOMAIN linked_issues.value

\* the keys of the nested issues on one side of the links of a family, in order
RECURSIVE NestedKeys(_, _, _)
NestedKeys(links, InF(_), side) ==
    IF links = <<>> THEN <<>>
    ELSE (IF InF(Head(links)) /\ HasNested(Head(links), side)
          THEN << IF HasGet(NestedIssue(Head(links), side))
                  THEN Get(NestedIssue(Head(links), side), "key", Str(S_UNKNOWN))
                  ELSE Str(S_UNKNOWN) >>
          ELSE <<>>) \o NestedKeys(Tail(links), InF, side)

Keys(entries) == [i \in 1..Len(entries) |-> entries[i].key]

\* C10: for every raw link list the call returns; blocks and blocked_by hold
\* the outward and inward issues of the links whose name contains "block",
\* causes and caused_by those of the links whose name contains "cause", any
\* other link adds nothing, and each list is its first 5 entries in raw-link
\* order.  One "is blocked by" and one "causes" link give an object with
\* blocked_by and causes of length 1 and empty blocks and caused_by.
C10_Classification ==
    LinksDone =>
        /\ ~linked_issues.raised
        /\ LET result == LinkedIssues(link_lists)
               expected(InF(_), side) ==
                   Prefix(NestedKeys(issue_links_data, InF, side), MAX_LINKS_PER_TYPE)
           IN  /\ linked_issues.value = result
               /\ result # None =>
                     /\ Keys(result.blocks) = expected(InBlocksFamily, "outwardIssue")
                     /\ Keys(result.blocked_by) = expected(InBlocksFamily, "inwardIssue")
                     /\ Keys(result.causes) = expected(InCausesFamily, "outwardIssue")
                     /\ Keys(result.caused_by) = expected(InCausesFamily, "inwardIssue")
               /\ result = None => ~\E i \in 1..Len(issue_links_data) :
                                        /\ InFamily(issue_links_data[i])
                                        /\ \/ HasNested(issue_links_data[i], "inwardIssue")
                                           \/ HasNested(issue_links_data[i], "outwardIssue")
        /\ issue_links_data = << Inward(LinkType(Name_Blocks), Issue_B),
                                 Outward(LinkType(Name_Causes), Issue_A) >>
              => /\ linked_issues.value # None
                 /\ Len(linked_issues.value.blocked_by) = 1
                 /\ Len(linked_issues.value.causes) = 1
                 /\ linked_issues.value.blocks = <<>>
                 /\ linked_issues.value.caused_by = <<>>

(***************************************************************************)
(* Properties of _filter_testing_comments (SpecFilter)                     *)
(***************************************************************************)
FilterDone == pc = "filter_done"

\* the text of a raw comment, as its readers see it
CommentText(c) == extract_text_from_adf(Get(c, "body", EmptyDict)).value

\* the last 10 comments
LastTen(cs) == IF Len(cs) > 10 THEN SubSeq(cs, Len(cs) - 9, Len(cs)) ELSE cs

\* a comment is retained when it has text and does not carry the marker
IsRetained(c) == CommentText(c) # <<>> /\ ~Contains(CommentText(c), BOT_MARKER)
HasKeyword(c) == \E keyword \in TESTING_KEYWORDS : Contains(Lower(CommentText(c)), keyword)
HasNoKeyword(c) == ~HasKeyword(c)

RetainedOf(cs) == SelectSeq(LastTen(cs), IsRetained)
MatchingOf(cs) == SelectSeq(RetainedOf(cs), HasKeyword)
OthersOf(cs) == SelectSeq(RetainedOf(cs), HasNoKeyword)

\* the comments the selection rule asks for
SelectedOf(cs) ==
    IF Len(MatchingOf(cs)) >= 3 THEN SubSeq(MatchingOf(cs), 1, 3)
    ELSE IF Len(MatchingOf(cs)) >= 1
    THEN MatchingOf(cs) \o Prefix(OthersOf(cs), 3 - Len(MatchingOf(cs)))
    ELSE Prefix(RetainedOf(cs), 3)

\* the returned JiraComment objects are those of the raw comments cs
ReturnsExactly(cs) ==
    /\ ~filter_result.raised
    /\ Len(filter_result.value) = Len(cs)
    /\ \A i \in 1..Len(cs) :
          /\ filter_result.value[i].body = CommentText(cs[i])
          /\ filter_result.value[i].created = Get(cs[i], "created", None)

SelectionRule ==
    /\ ReturnsExactly(SelectedOf(comments_arg))
    /\ Len(filter_result.value) <= 3

PostStep == post_result' # post_result

StoredText(comment) == extract_text_from_adf(Get(comment, "body", EmptyDict))
CarriesMarker(comment) ==
    LET text == StoredText(comment) IN ~text.raised /\ Contains(text.value, BOT_MARKER)
FilteredList == IF filtered_comments = None THEN <<>> ELSE filtered_comments.v
Returned(comment) == \E i \in 1..Len(FilteredList) : FilteredList[i].created = comment.v.created

\* C12: no comment returned in get_issue's filtered comments has the marker in its text,
\* and no comment of the issue that carries the marker, or that post_comment created or
\* updated, is among them.
C12_BotCommentsExcluded ==
    /\ \A i \in 1..Len(FilteredList) : ~Contains(FilteredList[i].body, BOT_MARKER)
    /\ \A k \in 1..Len(jira_comments) :
          CarriesMarker(jira_comments[k]) \/ jira_comments[k].v.id \in written
              => ~Returned(jira_comments[k])

\* get_issue returns a comment a user wrote after post_comment had created its own, whose
\* text has a testing keyword
C12_Witness ==
    /\ Len(jira_comments) = 2
    /\ jira_comments[1].v.id \in written
    /\ IsTestingRelated(StoredText(jira_comments[1]).value)
    /\ Returned(jira_comments[2])
    /\ ~Returned(jira_comments[1])

\* the first text run of the first paragraph of a comment holds the marker
FirstRunMarked(comment) ==
    LET body == comment.v.body
        para == body.v.content.v[1]
        run == para.v.content.v[1]
    IN  /\ body.v.type = Str(<<"doc">>)
        /\ body.v.content.v # <<>>
        /\ para.v.type = Str(<<"paragraph">>)
        /\ para.v.content.v # <<>>
        /\ "text" \in DOMAIN run.v
        /\ Contains(run.v.text.v, BOT_MARKER)
MarkedIds(site) == { site[k].v.id : k \in { j \in 1..Len(site) : FirstRunMarked(site[j]) } }
CallsOf(r, api) == { i \in 1..Len(r.calls) : r.calls[i].api = api }
WrittenText(site, id) ==
    { site[k].v.body : k \in { j \in 1..Len(site) : site[j].v.id = id } }
ExpectedBody(text) ==
    Doc(<< Paragraph(<< TextNode(BOT_MARKER \o <<"\n", "\n">> \o text) >>) >>)

\* C19: when get_comments returns a comment whose first text run holds the marker,
\* post_comment sends exactly one update, for such a comment, and no create, and what it
\* returns is that comment's id with updated = True; when get_comments returns no such
\* comment it sends one create and no update and what it returns has updated = False; the
\* text written is the marker, a blank line and the caller's text.
C19_UpdateExactlyWhenMarked ==
    [][ PostStep /\ post_result'.calls[1].ok =>
          LET r == post_result'
              marked == MarkedIds(jira_comments)
          IN  /\ marked # {} =>
                    /\ CallsOf(r, "jira:create") = {}
                    /\ \E i \in 1..Len(r.calls) :
                          /\ CallsOf(r, "jira:update") = {i}
                          /\ Str(r.calls[i].arg) \in marked
                          /\ r.returned # None =>
                                r.returned = [id |-> Str(r.calls[i].arg), updated |-> TRUE]
              /\ marked = {} =>
                    /\ CallsOf(r, "jira:update") = {}
                    /\ Cardinality(CallsOf(r, "jira:create")) = 1
                    /\ r.returned # None =>
                          /\ ~r.returned.updated
                          /\ Len(jira_comments') = Len(jira_comments) + 1
              /\ r.returned # None =>
                    WrittenText(jira_comments', r.returned.id) = { ExpectedBody(comment_text') }
      ]_vars

\* C20: when get_comments raises, post_comment sends one create request and no update;
\* if the create is answered it returns updated = False and the issue has one more
\* comment, holding the marked text; an error it raises is the create's, never the one
\* get_comments raised.
C20_FallsBackToCreate ==
    [][ PostStep /\ ~post_result'.calls[1].ok =>
          LET r == post_result'
          IN  /\ Len(r.calls) = 2
              /\ r.calls[1].api = "jira:comments"
              /\ r.calls[2].api = "jira:create"
              /\ r.calls[2].ok =>
                    /\ r.exc = NoExc
                    /\ r.returned # None
                    /\ ~r.returned.updated
                    /\ Len(jira_comments') = Len(jira_comments) + 1
                    /\ WrittenText(jira_comments', r.returned.id)
                           = { ExpectedBody(comment_text') }
              /\ ~r.calls[2].ok =>
                    /\ r.returned = None
                    /\ r.from = "create"
                    /\ jira_comments' = jira_comments
      ]_vars

\* get_comments failed while the issue held a comment with the marker, and post_comment
\* returned a new comment
C20_Witness ==
    /\ post_result # NotCalled
    /\ ~post_result.calls[1].ok
    /\ post_result.returned # None
    /\ ~post_result.returned.updated
    /\ Len(jira_comments) = 2
    /\ FirstRunMarked(jira_comments[1])
    /\ post_result.returned.id = Str(<<"2">>)

(***************************************************************************)
(* Properties of _extract_frames (SpecFrames)                              *)
(***************************************************************************)
FramesDone == pc = "frames_done"

Least(a, b) == IF a < b THEN a ELSE b

\* ids of the nodes at depth 3 or less that are reached through the first 50 children of
\* every node on the way
RECURSIVE ReachableIds(_, _)
ReachableIds(node, depth) ==
    IF depth > 3 THEN {}
    ELSE { node.v.id }
            \cup UNION { ReachableIds(node.v.children.v[i], depth + 1) :
                            i \in 1..Least(50, Len(node.v.children.v)) }

RECURSIVE TreeSize(_)
TreeSize(node) ==
    LET kids == node.v.children.v
        Sum[i \in 0..Len(kids)] == IF i = 0 THEN 0 ELSE Sum[i - 1] + TreeSize(kids[i])
    IN  1 + Sum[Len(kids)]

CollectedTypes == { <<"FRAME">>, <<"COMPONENT">>, <<"PAGE">>, <<"CANVAS">> }

\* C13: _extract_frames returns at most 50 elements, each of type FRAME, COMPONENT, PAGE
\* or CANVAS, each taken from a node at depth 3 or less that is reached through the first
\* 50 children of its ancestors.
C13_FramesBounded ==
    FramesDone =>
        /\ Len(frames_result) <= 50
        /\ \A i \in 1..Len(frames_result) :
              /\ frames_result[i].type.v \in CollectedTypes
              /\ frames_result[i].node_id \in ReachableIds(node_arg, 0)

\* 200 nested frames that reach depth 10 gave 50 elements
C13_Witness ==
    /\ FramesDone
    /\ Len(frames_result) = 50
    /\ TreeSize(node_arg) > 200
    /\ Len(node_arg.v.children.v) = 20
    /\ node_arg.v.children.v[1].v.type = Str(<<"FRAME">>)

(***************************************************************************)
(* Properties of extract_text_from_adf (SpecAdf)                           *)
(***************************************************************************)
AdfDone == pc = "adf_done"

\* a node and the nodes below it
RECURSIVE NodesOf(_)
NodesOf(j) ==
    IF j.t # "dict" THEN {}
    ELSE {j} \cup (IF "content" \in DOMAIN j.v /\ j.v.content.t = "list"
                   THEN UNION { NodesOf(j.v.content.v[i]) : i \in 1..Len(j.v.content.v) }
                   ELSE {})

IsStr(j) == j.t = "str"
IsListOf(j, t) == j.t = "list" /\ \A i \in 1..Len(j.v) : j.v[i].t = t

\* a document: every node has a type, and text, marks, attrs and content, where present,
\* are a string, a list of marks, an object and a list of nodes
IsDocumentNode(n) ==
    /\ "type" \in DOMAIN n.v /\ IsStr(n.v.type)
    /\ "text" \in DOMAIN n.v => IsStr(n.v.text)
    /\ "marks" \in DOMAIN n.v => IsListOf(n.v.marks, "dict")
    /\ "attrs" \in DOMAIN n.v =>
          /\ n.v.attrs.t = "dict"
          /\ "url" \in DOMAIN n.v.attrs.v => IsStr(n.v.attrs.v.url)
    /\ "content" \in DOMAIN n.v => IsListOf(n.v.content, "dict")
IsDocument(j) == j.t = "dict" /\ \A n \in NodesOf(j) : IsDocumentNode(n)

TextNodesOf(j) == { n \in NodesOf(j) : "text" \in DOMAIN n.v }
Struck(n) ==
    /\ "marks" \in DOMAIN n.v
    /\ \E i \in 1..Len(n.v.marks.v) : n.v.marks.v[i] = Mark(S_strike)
CardsOf(j) ==
    { n \in NodesOf(j) : /\ "type" \in DOMAIN n.v
                         /\ n.v.type \in { Str(<<"inlineCard">>), Str(<<"blockCard">>) }
                         /\ "attrs" \in DOMAIN n.v
                         /\ "url" \in DOMAIN n.v.attrs.v }
InListItem(n) ==
    \E item \in NodesOf(adf_arg) : item.v.type = Str(<<"listItem">>) /\ n \in NodesOf(item)

\* C14: for every document, the text of a text node that has a strike mark among its marks
\* is not in the output of extract_text_from_adf, and the text of every text node that has
\* none is.
C14_StruckTextDropped ==
    AdfDone /\ IsDocument(adf_arg) =>
        /\ ~adf_result.raised
        /\ \A n \in TextNodesOf(adf_arg) :
              Contains(adf_result.value, n.v.text.v) <=> ~Struck(n)

\* inside a list item, a text struck through and bold was dropped and its sibling kept
C14_Witness ==
    /\ AdfDone
    /\ IsDocument(adf_arg)
    /\ \E n, m \in TextNodesOf(adf_arg) :
          /\ Struck(n) /\ Len(n.v.marks.v) = 2 /\ n.v.marks.v[2] = Mark(S_strike)
          /\ InListItem(n) /\ InListItem(m)
          /\ ~Struck(m)
          /\ ~Contains(adf_result.value, n.v.text.v)
          /\ Contains(adf_result.value, m.v.text.v)

\* C15: for every document, the URL of every inlineCard and blockCard node is in the
\* output of extract_text_from_adf, whole and unchanged.
C15_CardUrlsKept ==
    AdfDone /\ IsDocument(adf_arg) =>
        /\ ~adf_result.raised
        /\ \A n \in CardsOf(adf_arg) : Contains(adf_result.value, n.v.attrs.v.url.v)

\* a blockCard in a list nested in a list, after a struck text: its URL is in the output
C15_Witness ==
    /\ AdfDone
    /\ IsDocument(adf_arg)
    /\ adf_arg = Wrapped("nested", LeavesOfKinds(<<"strike", "blockCard">>))
    /\ Contains(adf_result.value, LeafUrl(2).v)

\* C16: extract_text_from_adf never raises; null gives the empty string, a string gives
\* itself trimmed, a number its digits; a tree is traversed whatever its fields hold.
C16_NeverRaises ==
    AdfDone =>
        /\ ~adf_result.raised
        /\ adf_arg = None => adf_result.value = <<>>
        /\ adf_arg = Str(<<" ", "a", " ", "b", "\n">>) => adf_result.value = <<"a", " ", "b">>
        /\ adf_arg = Num(42) => adf_result.value = <<"4", "2">>

(***************************************************************************)
(* Properties of analyze_description (SpecAnalyze)                         *)
(***************************************************************************)
AnalyzeDone == pc = "analyze_done"

Blank(d) == d = None \/ \A i \in 1..Len(d.v) : d.v[i] \in {" ", "\n", "\t"}
Trimmed(d) == IF Blank(d) THEN <<>> ELSE Strip(d.v)
\* words: the places where a character that is not whitespace starts the text or follows
\* whitespace
WordStarts(t) ==
    { i \in 1..Len(t) : t[i] \notin {" ", "\n", "\t"} /\ (i = 1 \/ t[i - 1] \in {" ", "\n", "\t"}) }
HasWarning(w) == \E i \in 1..Len(analysis_result.warnings) : analysis_result.warnings[i] = w
MentionsAny(d, keywords) == \E keyword \in keywords : Contains(Lower(Trimmed(d)), keyword)

\* C17: is_weak is true exactly when the description is empty or whitespace-only, or has
\* fewer than 50 characters, or has at least 50 characters and fewer than 10 words, or a
\* warning was appended; an empty description gives has_description = false, is_weak =
\* true, exactly one warning and zero counts.
C17_WeakExactlyWhen ==
    AnalyzeDone =>
        LET chars == Len(Trimmed(description_arg))
            words == Cardinality(WordStarts(Trimmed(description_arg)))
        IN  /\ analysis_result.is_weak <=>
                  \/ Blank(description_arg)
                  \/ chars < 50
                  \/ chars >= 50 /\ words < 10
                  \/ analysis_result.warnings # <<>>
            /\ chars < 50 \/ words < 10 => analysis_result.is_weak
            /\ Blank(description_arg) =>
                  /\ ~analysis_result.has_description
                  /\ analysis_result.is_weak
                  /\ Len(analysis_result.warnings) = 1
                  /\ analysis_result.char_count = 0
                  /\ analysis_result.word_count = 0
            /\ ~Blank(description_arg) =>
                  /\ analysis_result.has_description
                  /\ analysis_result.char_count = chars
                  /\ analysis_result.word_count = words

\* a description of 50 characters or more in 9 words that names acceptance criteria and
\* tests is weak; one of 10 words is not
C17_Witness ==
    /\ AnalyzeDone
    /\ analysis_result.char_count >= 50
    /\ analysis_result.word_count = 9
    /\ analysis_result.is_weak
    /\ Len(analysis_result.warnings) = 1
    /\ MentionsAny(description_arg, {<<"g", "i", "v", "e", "n">>})
    /\ MentionsAny(description_arg, {<<"t", "e", "s", "t">>})

StatedAcKeywords ==
    { <<"a", "c", "c", "e", "p", "t", "a", "n", "c", "e", " ", "c", "r", "i", "t", "e", "r", "i", "a">>,
      <<"a", "c", ":">>,
      <<"g", "i", "v", "e", "n">>,
      <<"w", "h", "e", "n">>,
      <<"t", "h", "e", "n">>,
      <<"s", "h", "o", "u", "l", "d", ":">>,
      <<"m", "u", "s", "t", ":">> }

\* C18 as stated: for a description of more than 50 characters the missing-AC warning is
\* appended exactly when the lower-cased text contains none of 'acceptance criteria',
\* 'ac:', 'given', 'when', 'then', 'should:', 'must:'; for 50 characters or fewer it is
\* never appended.
C18_AcWarning_AsStated ==
    AnalyzeDone =>
        IF Len(Trimmed(description_arg)) > 50
        THEN HasWarning(W_NoAcceptanceCriteria)
                 <=> ~MentionsAny(description_arg, StatedAcKeywords)
        ELSE ~HasWarning(W_NoAcceptanceCriteria)

\* C18: for a description whose trimmed text has more than 50 characters the missing-AC
\* warning is appended exactly when the lower-cased text contains none of 'acceptance
\* criteria', 'ac:', 'acceptance:', 'given', 'when', 'then', 'should:', 'must:'; for 50
\* characters or fewer it is never appended.
C18_AcWarning ==
    AnalyzeDone =>
        IF Len(Trimmed(description_arg)) > 50
        THEN HasWarning(W_NoAcceptanceCriteria)
                 <=> ~MentionsAny(description_arg,
                                  StatedAcKeywords \cup { <<"a", "c", "c", "e", "p", "t", "a", "n", "c", "e", ":">> })
        ELSE ~HasWarning(W_NoAcceptanceCriteria)

\* a description of more than 50 characters that says "GIVEN" got no missing-AC warning,
\* though it got the one about testing keywords
C18_Witness ==
    /\ AnalyzeDone
    /\ analysis_result.char_count > 50
    /\ Contains(description_arg.v, <<"G", "I", "V", "E", "N">>)
    /\ ~HasWarning(W_NoAcceptanceCriteria)
    /\ HasWarning(W_NoTestKeywords)

(***************************************************************************)
(* Properties of get_all_images (SpecImages)                               *)
(***************************************************************************)
ImagesDone == pc = "images_done"
OwnImages == images_arg.issue.attachments
ParentImages ==
    IF images_arg.issue.parent = None THEN <<>> ELSE images_arg.issue.parent.attachments
IsOwn(image) == \E i \in 1..Len(OwnImages) : OwnImages[i] = image
FewerOf(a, b) == IF a < b THEN a ELSE b

\* C21: get_all_images returns at most max_images attachments: the first 2 (or fewer) of
\* the issue's own images, then the first images of the parent, as many as fill the
\* slots that remain; every own image precedes every parent image.
C21_AtMostMaxImages ==
    ImagesDone =>
        LET own == FewerOf(2, Len(OwnImages))
        IN  /\ Len(images_result) <= images_arg.max_images
            /\ SubSeq(images_result, 1, FewerOf(own, Len(images_result)))
                   = SubSeq(OwnImages, 1, FewerOf(own, Len(images_result)))
            /\ \A i, j \in 1..Len(images_result) :
                  IsOwn(images_result[j]) /\ ~IsOwn(images_result[i]) => j < i

(***************************************************************************)
(* Properties of _get_development_info inside get_issue (Spec)             *)
(***************************************************************************)
DevCalls == CallsTo("jira:dev-summary") \cup CallsTo("jira:dev-detail")
RaisedDevCalls == { i \in DevCalls : calls[i].raised }
DevLoopOver ==
    /\ pc \notin {"start", "raised", "dev_summary", "dev_repo", "dev_pr"}
    /\ CallsTo("jira:dev-summary") # {}

\* what the detail requests sent so far contribute, in the order they were sent
RECURSIVE Contributed(_, _)
Contributed(i, what) ==
    IF i = 0 THEN <<>>
    ELSE Contributed(i - 1, what)
            \o (IF calls[i].api = "jira:dev-detail" /\ calls[i].arg[2] = "repository"
                   /\ calls[i].ok
                THEN IF what = "commits"
                     THEN _extract_commits(RepoData(issue_id, calls[i].arg[1]))
                     ELSE _extract_branches(RepoData(issue_id, calls[i].arg[1]))
                ELSE <<>>)

C22_WitnessNon200 ==
    /\ pc = "done"
    /\ RaisedDevCalls = {}
    /\ \E i \in FailedCallsTo("jira:dev-detail") : calls[i].arg[2] = "repository"
    /\ dev_result \notin {None, NotCalled}
    /\ dev_result.pull_requests # <<>>
    /\ dev_result.commits = <<>>

\* the step in which a pull-request detail answered with 200 is processed
PrDetailStep ==
    /\ pc = "dev_pr"
    /\ Len(calls') > Len(calls)
    /\ calls'[Len(calls) + 1].ok
ListedPRs == PullRequestsOf(PrData(issue_id, Head(pending)))
ExtractedPRs == SubSeq(pull_requests', Len(pull_requests) + 1, Len(pull_requests'))
GitHubCallsOfStep == SubSeq(calls', Len(calls) + 2, Len(calls'))
AnsweredFor(url, api) ==
    \E k \in 1..Len(GitHubCallsOfStep) :
        /\ GitHubCallsOfStep[k].api = api
        /\ GitHubCallsOfStep[k].arg = url
        /\ GitHubCallsOfStep[k].ok
AttemptedFor(url) ==
    \E k \in 1..Len(GitHubCallsOfStep) :
        GitHubCallsOfStep[k].api = "github:pull" /\ GitHubCallsOfStep[k].arg = url
IsPullRequestUrl(url) == url \in { Str(Url_GitHubPR7), Str(Url_GitHubPR8) }

\* C23: when a pull-request detail response is processed, every pull request it lists is
\* appended, in response order, with the title, status and URL Jira gave; a pull request
\* whose GitHub fetch did not give details keeps its basic fields only; and with a token
\* configured the fetch is attempted for every pull request with a GitHub pull-request
\* URL, whatever happened to the ones before it.
C23_EveryPullRequestKept ==
    [][ PrDetailStep =>
          /\ SubSeq(pull_requests', 1, Len(pull_requests)) = pull_requests
          /\ Len(ExtractedPRs) = Len(ListedPRs)
          /\ \A i \in 1..Len(ListedPRs) :
                LET pr == ExtractedPRs[i]
                IN  /\ pr.title = Get(ListedPRs[i], "name", Str(<<>>))
                    /\ pr.status = Get(ListedPRs[i], "status", Str(<<"UNKNOWN">>))
                    /\ pr.url = Get(ListedPRs[i], "url", None)
                    /\ (github_token /\ IsPullRequestUrl(pr.url)) => AttemptedFor(pr.url.v)
                    /\ Enriched(pr) <=>
                          /\ github_token /\ IsPullRequestUrl(pr.url)
                          /\ AnsweredFor(pr.url.v, "github:pull")
                          /\ AnsweredFor(pr.url.v, "github:files")
                    /\ ~Enriched(pr) => \A f \in EnrichmentFields : pr[f] = None
      ]_vars

\* three pull requests in one response: the first gave no details, the fetch of the second
\* failed, the third was enriched; all three are in the result, in order
C23_Witness ==
    /\ pc = "dev_return"
    /\ Len(pull_requests) = 3
    /\ pull_requests[1].url = Str(Url_GitHubTree) /\ ~Enriched(pull_requests[1])
    /\ pull_requests[2].url = Str(Url_GitHubPR7) /\ ~Enriched(pull_requests[2])
    /\ pull_requests[3].url = Str(Url_GitHubPR8) /\ Enriched(pull_requests[3])
    /\ \E i \in FailedCallsTo("github:pull") : calls[i].arg = Url_GitHubPR7

(***************************************************************************)
(* C24: with a GitHub token and a pull request that links to github.com,   *)
(* _get_development_info attempts exactly one repository-context fetch per *)
(* get_issue call and attaches the context it yields; it attempts none     *)
(* after a success or when no pull request links to github.com.            *)
(***************************************************************************)
\* _get_development_info went through its last step and returned an object
DevInfoBuilt == dev_result \notin {NotCalled, None}

\* positions of the pull requests whose URL holds "github.com"
GitHubLinked(prs) ==
    { i \in DOMAIN prs : Truthy(prs[i].url) /\ Contains(prs[i].url.v, S_github_com) }

C24_ExactlyOneContextFetch ==
    DevInfoBuilt =>
        /\ (github_token /\ GitHubLinked(dev_result.pull_requests) # {})
              => Len(context_attempts) = 1
        /\ GitHubLinked(dev_result.pull_requests) = {}
              => context_attempts = <<>> /\ dev_result.repository_context = None
        /\ dev_result.repository_context # None => context_attempts # <<>>

(***************************************************************************)
(* C25: in a get_issue call whose primary description produced a design    *)
(* context, reading the parent issue sends no request to the design tool.  *)
(***************************************************************************)
\* the step of get_issue that reads the parent issue
ParentStep == pc = "parent" /\ pc' = "linked"

\* the primary description yielded a design context (lines 710-729)
PrimaryDesignContext ==
    development_info # None /\ development_info.figma_context # None

\* requests sent to the design tool during the step
DesignCallsOfStep ==
    { k \in (Len(calls) + 1)..Len(calls') :
          calls'[k].api \in {"figma:file", "figma:components"} }

C25_NoParentDesignFetchAfterPrimary ==
    [][(ParentStep /\ PrimaryDesignContext) => DesignCallsOfStep = {}]_vars

(***************************************************************************)
(* C26: enriching one code change (fetch_pr_details with its comments)     *)
(* sends a bounded number of requests to the code host.  As stated the     *)
(* bound is 3; the code sends one request each for the details, the file   *)
(* list, the conversation comments and the review comments: at most 4.     *)
(***************************************************************************)
\* the requests of the step that fetch_pr_details sent for the change at url
EnrichmentCallsFor(url) ==
    { k \in 1..Len(GitHubCallsOfStep) : GitHubCallsOfStep[k].arg = url }

EnrichedUrls == { ExtractedPRs[i].url.v : i \in GitHubLinked(ExtractedPRs) }

\* as stated: at most 3 calls per change
C26_AtMostThreeCalls ==
    [][PrDetailStep => \A url \in EnrichedUrls :
                           Cardinality(EnrichmentCallsFor(url)) <= 3]_vars

\* amended: at most 4 calls per change, one per endpoint
C26_AtMostFourCalls ==
    [][PrDetailStep =>
         \A url \in EnrichedUrls :
             /\ Cardinality(EnrichmentCallsFor(url)) <= 4
             /\ \A j, k \in EnrichmentCallsFor(url) :
                    GitHubCallsOfStep[j].api = GitHubCallsOfStep[k].api => j = k]_vars

\* a change was enriched with all four requests
C26_Witness ==
    \E k \in 1..(Len(calls) - 3) :
        /\ calls[k].api = "github:pull" /\ calls[k + 1].api = "github:files"
        /\ calls[k + 2].api = "github:issue-comments"
        /\ calls[k + 3].api = "github:review-comments"
        /\ \A j \in 1..3 : calls[k + j].arg = calls[k].arg

(***************************************************************************)
(* C27: when fewer than 3 retained comments are testing-related,           *)
(* _filter_testing_comments fills the remaining slots with the latest      *)
(* comments; when none is testing-related it returns the latest 3 comments *)
(* of the window.                                                          *)
(***************************************************************************)
\* the last n elements of xs
Latest(xs, n) == IF Len(xs) > n THEN SubSeq(xs, Len(xs) - n + 1, Len(xs)) ELSE xs

\* what a reader sees of the comments cs, whatever their order
Seen(cs) == { <<CommentText(cs[i]), Get(cs[i], "created", None)>> : i \in 1..Len(cs) }
SeenInResult ==
    { <<filter_result.value[i].body, filter_result.value[i].created>> :
          i \in 1..Len(filter_result.value) }

C27_FillsWithLatest ==
    (FilterDone /\ ~filter_result.raised /\ Len(MatchingOf(comments_arg)) < 3) =>
        SeenInResult =
            Seen(MatchingOf(comments_arg)
                    \o Latest(OthersOf(comments_arg), 3 - Len(MatchingOf(comments_arg))))

(***************************************************************************)
(* C30: in every JiraIssue get_issue returns, development_info is None or  *)
(* holds at least one commit, pull request or branch, whatever the         *)
(* design-context fetch returned.                                          *)
(***************************************************************************)
C30_NoEmptyDevelopmentInfo ==
    returned # NotCalled =>
        \/ returned.development_info = None
        \/ returned.development_info.commits # <<>>
        \/ returned.development_info.pull_requests # <<>>
        \/ returned.development_info.branches # <<>>

(***************************************************************************)
(* Properties of post_comment calls that share an issue (SpecCalls)        *)
(***************************************************************************)
\* the comments of the issue that carry the marker
MarkerComments == { k \in 1..Len(jira_comments) : CarriesMarker(jira_comments[k]) }

\* those the issue held before the first call: post_comment never writes as Ann
PriorMarkerComments ==
    { k \in MarkerComments :
          jira_comments[k].v.author = Obj([displayName |-> Str(<<"Ann">>)]) }

AllAnswered == \A p \in 1..Len(procs) : procs[p].answered
AllDone == \A p \in 1..Len(procs) : procs[p].pc = "done"
Sequential == \A p \in 1..Len(procs) : procs[p].alone

\* C28: two post_comment calls on the same issue that run concurrently never
\* leave two marker comments on it: whatever the interleaving of their requests,
\* all of them answered, an issue that held at most one marker comment holds at
\* most one afterwards.
C28_NoSecondMarkerComment ==
    AllAnswered => Cardinality(MarkerComments) <= 1

\* C29: starting from an issue with no marker comment, after any sequence of
\* post_comment calls that run one after the other and whose requests are all
\* answered, the issue holds exactly one marker comment, with the text of the
\* last call; the first call returned updated = False and every later call
\* updated = True.
C29_SequentialCallsKeepOne ==
    (procs # <<>> /\ Sequential /\ AllAnswered /\ AllDone /\ PriorMarkerComments = {}) =>
        /\ Cardinality(MarkerComments) = 1
        /\ \A k \in MarkerComments :
               jira_comments[k].v.body = ExpectedBody(procs[Len(procs)].text)
        /\ \A p \in 1..Len(procs) :
               /\ procs[p].returned # None
               /\ procs[p].returned.updated = (p > 1)

\* two calls ran one after the other on an issue that held a user's comment;
\* the second one wrote a text the first had not
C29_Witness ==
    /\ Len(procs) = 2 /\ Sequential /\ AllAnswered /\ AllDone
    /\ PriorMarkerComments = {}
    /\ Len(jira_comments) = 2
    /\ procs[1].text # procs[2].text
    /\ procs[2].returned = [id |-> Str(<<"2">>), updated |-> TRUE]

====
